---------------------------- MODULE Spec2Model ----------------------------
(***************************************************************************)
(* Model of the MACC builder (src/src/MACCApp.jsx): numeric and finance    *)
(* helpers, the measure wizard's computation engine, the catalog resolver, *)
(* the ranking of measures by effective cost, the curve builder, budget-   *)
(* to-target and the persistence of a firm's data in localStorage.         *)
(*                                                                         *)
(* JavaScript values are records [t, n, d]:                                *)
(*   t = "num"    the finite number n/d (d > 0, lowest terms)              *)
(*   t = "nan"    NaN                                                      *)
(*   t = "inf"    +Infinity (n = 1) or -Infinity (n = -1)                  *)
(*   t = "blank"  the empty string ""                                      *)
(*   t = "null"   null / undefined                                         *)
(*   t = "text"   a non-empty string that is not a number ("abc")          *)
(*   t = "numstr" a non-empty string spelling the number n/d ("5")         *)
(*   t = "bool"   true (n = 1) or false (n = 0)                            *)
(* Arithmetic is exact on finite numbers; array indices are 0-based as in  *)
(* the source, sequences are 1-based, so JS index i is position i + 1.     *)
(***************************************************************************)
EXTENDS Integers, Sequences, FiniteSets, TLC

VARIABLES
    series,          \* interpolateSeries: the caller's array
    interpolated,    \* interpolateSeries: the returned array (<<>> before a call)
    interpCalls,     \* number of interpolateSeries calls made on the array
    measures,        \* MACCApp state: the active firm's measures, in list order
    carbonPrice,     \* MACCApp state: current carbon price
    mode,            \* MACCApp pref: "capacity" | "intensity"
    selectedSector,  \* MACCApp pref: "All sectors" or a sector name
    baselines,       \* MACCApp state: sector -> annual_emissions
    targetIntensityPct,  \* MACCApp pref: the target slider, in percent
    dataSources,     \* MACCApp state: the sample catalogs, category -> rows
    customCatalogs,  \* MACCApp state: the firm's custom catalogs, category -> rows
    catalogMode,     \* MACCApp state: "sample" | "custom" | "merged"
    wizardOpen,      \* MACCApp state: the measure wizard is shown
    editingMeasure,  \* MACCApp state: the measure handed to the wizard for editing, or Null
    adoption,        \* MeasureWizard state: adoption fraction per year
    otherDirectT,    \* MeasureWizard state: other direct reduction per year
    fuelLines,       \* MeasureWizard state: fuel driver lines
    rawLines,        \* MeasureWizard state: raw material driver lines
    transLines,      \* MeasureWizard state: transport driver lines
    wasteLines,      \* MeasureWizard state: water and waste driver lines
    elecLines,       \* MeasureWizard state: electricity driver lines
    stack,           \* MeasureWizard state: cost stack, series name -> series
    applyCarbonPriceInSave,  \* MeasureWizard pref: save the cost including the carbon price
    finArgs,         \* finance helpers: the arguments of the call under way
    finRet,          \* finance helpers: what the call returned
    localStorage,    \* the browser's localStorage: macc_firms, macc_active_firm_id, macc_firm_<id>_*
    firms,           \* MACCApp state: the firms, each with its id and name
    activeFirmId,    \* MACCApp state: the id of the active firm, 0 for null
    dataLoaded,      \* MACCApp state: the sample data files have arrived
    beforeReload,    \* history: the firm's state when the app was last closed (<<>> before)
    stateWhenLeft,   \* history: per firm id, the firm's state when it stopped being active
    fileText,        \* apply_text_fixes: the content of the target file
    backups,         \* apply_text_fixes: the contents of the backup files written, oldest first
    runLog           \* apply_text_fixes: one record per finished run of the script

interpVars == <<series, interpolated, interpCalls>>

appVars == <<measures, carbonPrice, mode, selectedSector, baselines, targetIntensityPct>>

catVars == <<dataSources, customCatalogs, catalogMode>>

finVars == <<finArgs, finRet>>

firmVars == <<firms, activeFirmId, dataLoaded, beforeReload, stateWhenLeft>>

scriptVars == <<fileText, backups, runLog>>

wizVars == <<wizardOpen, editingMeasure, adoption, otherDirectT, fuelLines, rawLines, transLines, wasteLines,
             elecLines, stack, applyCarbonPriceInSave>>

vars == <<series, interpolated, interpCalls,
          measures, carbonPrice, mode, selectedSector, baselines, targetIntensityPct,
          dataSources, customCatalogs, catalogMode,
          wizardOpen, editingMeasure, adoption, otherDirectT, fuelLines, rawLines, transLines,
          wasteLines, elecLines, stack, applyCarbonPriceInSave,
          finArgs, finRet,
          localStorage, firms, activeFirmId, dataLoaded, beforeReload, stateWhenLeft,
          fileText, backups, runLog>>

-----------------------------------------------------------------------------
(* JavaScript numbers and coercions *)

Abs(x) == IF x < 0 THEN -x ELSE x

MaxOf(S) == CHOOSE x \in S : \A y \in S : y <= x
MinOf(S) == CHOOSE x \in S : \A y \in S : x <= y

RECURSIVE GCD(_, _)
GCD(a, b) == IF b = 0 THEN a ELSE GCD(b, a % b)

Rat(n, d) ==
    LET s == IF d < 0 THEN -1 ELSE 1
        g == GCD(Abs(n), Abs(d))
    IN  [t |-> "num", n |-> (s * n) \div g, d |-> Abs(d) \div g]

Num(k) == [t |-> "num", n |-> k, d |-> 1]
NaN == [t |-> "nan", n |-> 0, d |-> 1]
Inf(s) == [t |-> "inf", n |-> s, d |-> 1]
Blank == [t |-> "blank", n |-> 0, d |-> 1]
Null == [t |-> "null", n |-> 0, d |-> 1]
Text == [t |-> "text", n |-> 0, d |-> 1]
JsTrue == [t |-> "bool", n |-> 1, d |-> 1]
JsFalse == [t |-> "bool", n |-> 0, d |-> 1]
NumStr(k) == [t |-> "numstr", n |-> k, d |-> 1]

Sgn(a) == IF a.n > 0 THEN 1 ELSE IF a.n < 0 THEN -1 ELSE 0

\* Number(v)
ToNumber(v) ==
    CASE v.t = "num" -> v
      [] v.t = "nan" -> v
      [] v.t = "inf" -> v
      [] v.t = "blank" -> Num(0)
      [] v.t = "null" -> Num(0)
      [] v.t = "numstr" -> [t |-> "num", n |-> v.n, d |-> v.d]
      [] v.t = "bool" -> Num(v.n)
      [] OTHER -> NaN

\* truthiness of v, as used by (v || 0), (v ? a : b), !!v
Truthy(v) ==
    CASE v.t = "num" -> v.n # 0
      [] v.t = "inf" -> TRUE
      [] v.t = "text" -> TRUE
      [] v.t = "numstr" -> TRUE
      [] v.t = "bool" -> v.n = 1
      [] OTHER -> FALSE

\* (v || 0)
OrZero(v) == IF Truthy(v) THEN v ELSE Num(0)

\* Number.isFinite(a) for a number a
IsFiniteNum(a) == a.t = "num"

jsNeg(a) ==
    CASE a.t = "num" -> [t |-> "num", n |-> -a.n, d |-> a.d]
      [] a.t = "inf" -> Inf(-a.n)
      [] OTHER -> NaN

jsAdd(a, b) ==
    CASE a.t = "nan" \/ b.t = "nan" -> NaN
      [] a.t = "inf" /\ b.t = "inf" -> IF a.n = b.n THEN a ELSE NaN
      [] a.t = "inf" -> a
      [] b.t = "inf" -> b
      [] OTHER ->
           LET g == GCD(a.d, b.d)
           IN  Rat(a.n * (b.d \div g) + b.n * (a.d \div g), (a.d \div g) * b.d)

jsSub(a, b) == jsAdd(a, jsNeg(b))

jsMul(a, b) ==
    CASE a.t = "nan" \/ b.t = "nan" -> NaN
      [] a.t = "inf" \/ b.t = "inf" ->
           IF Sgn(a) * Sgn(b) = 0 THEN NaN ELSE Inf(Sgn(a) * Sgn(b))
      [] OTHER ->
           LET g1 == GCD(Abs(a.n), b.d)
               g2 == GCD(Abs(b.n), a.d)
           IN  Rat((a.n \div g1) * (b.n \div g2), (a.d \div g2) * (b.d \div g1))

jsDiv(a, b) ==
    CASE a.t = "nan" \/ b.t = "nan" -> NaN
      [] a.t = "inf" /\ b.t = "inf" -> NaN
      [] a.t = "inf" -> Inf(IF Sgn(b) < 0 THEN -a.n ELSE a.n)
      [] b.t = "inf" -> Num(0)
      [] b.n = 0 -> IF a.n = 0 THEN NaN ELSE Inf(Sgn(a))
      [] OTHER -> jsMul(a, Rat(b.d * Sgn(b), Abs(b.n)))

\* the order of a/b and c/d for a, c >= 0 and b, d > 0, as -1, 0 or 1: by
\* the whole parts, then by the remainders
RECURSIVE CmpFrac(_, _, _, _)
CmpFrac(a, b, c, d) ==
    IF a \div b < c \div d THEN -1
    ELSE IF a \div b > c \div d THEN 1
    ELSE IF a % b = 0 THEN (IF c % d = 0 THEN 0 ELSE -1)
    ELSE IF c % d = 0 THEN 1
    ELSE CmpFrac(d, c % d, b, a % b)

\* the order of two finite numbers, as -1, 0 or 1
CmpNum(x, y) ==
    IF x.n < 0 /\ y.n >= 0 THEN -1
    ELSE IF x.n >= 0 /\ y.n < 0 THEN 1
    ELSE IF x.n >= 0 THEN CmpFrac(x.n, x.d, y.n, y.d)
    ELSE CmpFrac(-y.n, y.d, -x.n, x.d)

\* a < b, a > b, a <= b on numbers (every comparison with NaN is false)
jsLt(a, b) ==
    CASE a.t = "nan" \/ b.t = "nan" -> FALSE
      [] a.t = "inf" /\ b.t = "inf" -> a.n < b.n
      [] a.t = "inf" -> a.n < 0
      [] b.t = "inf" -> b.n > 0
      [] OTHER -> CmpNum(a, b) < 0

jsGt(a, b) == jsLt(b, a)

jsLe(a, b) == a.t # "nan" /\ b.t # "nan" /\ ~jsLt(b, a)

\* Math.max(a, b), Math.min(a, b)
jsMax(a, b) ==
    IF a.t = "nan" \/ b.t = "nan" THEN NaN ELSE IF jsLt(a, b) THEN b ELSE a

jsMin(a, b) ==
    IF a.t = "nan" \/ b.t = "nan" THEN NaN ELSE IF jsLt(b, a) THEN b ELSE a

\* Math.abs(a)
jsAbs(a) ==
    CASE a.t = "num" -> [t |-> "num", n |-> Abs(a.n), d |-> a.d]
      [] a.t = "inf" -> Inf(1)
      [] OTHER -> NaN

\* a ?? b
Coalesce(a, b) == IF a.t = "null" THEN b ELSE a

Square(a) == jsMul(a, a)

\* Math.pow(b, e) for an integer exponent e >= 0 (Math.pow(x, 0) is 1 for
\* every x), by repeated squaring
RECURSIVE jsPow(_, _)
jsPow(b, e) ==
    IF e = 0 \/ b = Num(1) THEN Num(1)
    ELSE IF e % 2 = 0 THEN Square(jsPow(b, e \div 2))
    ELSE jsMul(b, jsPow(b, e - 1))

\* 2 to the power k
RECURSIVE TwoTo(_)
TwoTo(k) == IF k = 0 THEN 1 ELSE 2 * TwoTo(k - 1)

\* the sum of the values of a sequence
RECURSIVE SumOfValues(_)
SumOfValues(vals) ==
    IF vals = <<>> THEN Num(0) ELSE jsAdd(vals[1], SumOfValues(Tail(vals)))

-----------------------------------------------------------------------------
(* Finance: npv and irr *)

\* the defaults of irr's parameters guessLow, guessHigh and tol
GuessLow == Rat(-9, 10)
GuessHigh == Num(3)
Tol == Rat(1, 1000000)

\* amounts.reduce((acc, amt, i) =>
\*     acc + Number(amt) / Math.pow(1 + r, Math.max(0, years[i] - baseYear)), 0)
\* Number(amt) / Math.pow(1 + r, e); a NaN amount gives NaN over every power
\* and a zero amount gives 0 over every finite non-zero power, so those two
\* quotients are taken without raising the power
NpvTerm(amt, r, e) ==
    IF amt.t = "nan" THEN NaN
    ELSE IF amt = Num(0) /\ r.t = "num" /\ r # Num(-1) THEN Num(0)
    ELSE jsDiv(amt, jsPow(jsAdd(Num(1), r), e))

RECURSIVE NpvReduce(_, _, _, _, _, _)
NpvReduce(acc, r, amounts, years, baseYear, k) ==
    IF k > Len(amounts) THEN acc
    ELSE NpvReduce(
           jsAdd(acc, NpvTerm(ToNumber(amounts[k]), r,
                              IF years[k] - baseYear > 0 THEN years[k] - baseYear ELSE 0)),
           r, amounts, years, baseYear, k + 1)

npv(rate, amounts, years, baseYear) ==
    NpvReduce(Num(0), ToNumber(rate), amounts, years, baseYear, 1)

RECURSIVE IrrLoop(_, _, _, _, _, _, _, _, _)

\* the body of the bisection loop after mid and fMid are known
IrrBranch(amounts, years, baseYear, lo, hi, fLo, tol, it, maxIter, mid, fMid) ==
    IF jsLt(jsAbs(fMid), tol) THEN mid
    ELSE IF jsLt(jsMul(fLo, fMid), Num(0))
         THEN IrrLoop(amounts, years, baseYear, lo, mid, fLo, tol, it + 1, maxIter)
         ELSE IrrLoop(amounts, years, baseYear, mid, hi, fMid, tol, it + 1, maxIter)

IrrStep(amounts, years, baseYear, lo, hi, fLo, tol, it, maxIter, mid) ==
    IrrBranch(amounts, years, baseYear, lo, hi, fLo, tol, it, maxIter, mid,
              npv(mid, amounts, years, baseYear))

\* for (let it = 0; it < maxIter; it++) { ... } return (lo + hi) / 2
IrrLoop(amounts, years, baseYear, lo, hi, fLo, tol, it, maxIter) ==
    IF it >= maxIter THEN jsDiv(jsAdd(lo, hi), Num(2))
    ELSE IrrStep(amounts, years, baseYear, lo, hi, fLo, tol, it, maxIter,
                 jsDiv(jsAdd(lo, hi), Num(2)))

\* the two early returns on the values at the bounds, then the loop
IrrBracket(amounts, years, baseYear, lo, hi, tol, maxIter, fLo, fHi) ==
    IF fLo.t = "nan" \/ fHi.t = "nan" THEN Null
    ELSE IF jsGt(jsMul(fLo, fHi), Num(0)) THEN Null
    ELSE IrrLoop(amounts, years, baseYear, lo, hi, fLo, tol, 0, maxIter)

irr(amounts, years, baseYear, guessLow, guessHigh, tol, maxIter) ==
    IrrBracket(amounts, years, baseYear, guessLow, guessHigh, tol, maxIter,
               npv(guessLow, amounts, years, baseYear),
               npv(guessHigh, amounts, years, baseYear))

-----------------------------------------------------------------------------
(* quadraticFit *)

\* The sums of powers and the determinants of quadraticFit are kept as
\* m / 2^e with an integer m, so that sixth powers of x values as small as
\* 1/128 stay exact; the x and y values are numbers whose denominator is a
\* power of two.
RECURSIVE Dy(_, _)
Dy(m, e) ==
    IF m = 0 THEN [m |-> 0, e |-> 0]
    ELSE IF e > 0 /\ m % 2 = 0 THEN Dy(m \div 2, e - 1)
    ELSE [m |-> m, e |-> e]

RECURSIVE Log2(_)
Log2(d) == IF d <= 1 THEN 0 ELSE 1 + Log2(d \div 2)

\* Number(v) for a finite v
ToDy(v) == Dy(ToNumber(v).n, Log2(ToNumber(v).d))

DyAlign(p, q, e) == Dy(p.m * TwoTo(e - p.e) + q.m * TwoTo(e - q.e), e)

DyAdd(p, q) ==
    IF p.m = 0 THEN q
    ELSE IF q.m = 0 THEN p
    ELSE DyAlign(p, q, IF p.e > q.e THEN p.e ELSE q.e)

DySub(p, q) == DyAdd(p, [m |-> -q.m, e |-> q.e])

DyMul(p, q) == Dy(p.m * q.m, p.e + q.e)

\* p / q for q # 0, as a number
DyQuot(p, q) ==
    IF p.m = 0 THEN Num(0)
    ELSE IF q.e >= p.e THEN Rat(p.m * TwoTo(q.e - p.e), q.m)
    ELSE Rat(p.m, q.m * TwoTo(p.e - q.e))

\* 5 to the power 12: 1e-12 is 1 / (2^12 * 5^12)
FiveTo12 == 244140625

\* Math.abs(D) < 1e-12, that is |m| * 5^12 < 2^(e - 12)
DyBelowTolerance(p) ==
    IF p.m = 0 THEN TRUE
    ELSE IF p.e < 12 THEN FALSE
    ELSE Abs(p.m) <= (TwoTo(p.e - 12) - 1) \div FiveTo12

RECURSIVE DySum(_)
DySum(vals) == IF vals = <<>> THEN Dy(0, 0) ELSE DyAdd(vals[1], DySum(Tail(vals)))

\* the running sums of the first loop
FitSums(x, y, n) ==
    [n |-> Dy(n, 0),
     Sx |-> DySum(x),
     Sx2 |-> DySum([i \in 1..n |-> DyMul(x[i], x[i])]),
     Sx3 |-> DySum([i \in 1..n |-> DyMul(DyMul(x[i], x[i]), x[i])]),
     Sx4 |-> DySum([i \in 1..n |-> DyMul(DyMul(x[i], x[i]), DyMul(x[i], x[i]))]),
     Sy |-> DySum(y),
     Sxy |-> DySum([i \in 1..n |-> DyMul(x[i], y[i])]),
     Sx2y |-> DySum([i \in 1..n |-> DyMul(DyMul(x[i], x[i]), y[i])])]

\* det without the third term of the expansion
detTwoTerms(m) ==
    DySub(DyMul(m[1][1], DySub(DyMul(m[2][2], m[3][3]), DyMul(m[2][3], m[3][2]))),
          DyMul(m[1][2], DySub(DyMul(m[2][1], m[3][3]), DyMul(m[2][3], m[3][1]))))

\* the determinant of a 3 x 3 matrix, expanded along its first row
det(m) ==
    DyAdd(DySub(DyMul(m[1][1], DySub(DyMul(m[2][2], m[3][3]), DyMul(m[2][3], m[3][2]))),
                DyMul(m[1][2], DySub(DyMul(m[2][1], m[3][3]), DyMul(m[2][3], m[3][1])))),
          DyMul(m[1][3], DySub(DyMul(m[2][1], m[3][2]), DyMul(m[2][2], m[3][1]))))

\* the matrices M, My, Mb and Mc
FitM(S) == <<<<S.n, S.Sx, S.Sx2>>, <<S.Sx, S.Sx2, S.Sx3>>, <<S.Sx2, S.Sx3, S.Sx4>>>>
FitMy(S) == <<<<S.Sy, S.Sx, S.Sx2>>, <<S.Sxy, S.Sx2, S.Sx3>>, <<S.Sx2y, S.Sx3, S.Sx4>>>>
FitMb(S) == <<<<S.n, S.Sy, S.Sx2>>, <<S.Sx, S.Sxy, S.Sx3>>, <<S.Sx2, S.Sx2y, S.Sx4>>>>
FitMc(S) == <<<<S.n, S.Sx, S.Sy>>, <<S.Sx, S.Sx2, S.Sxy>>, <<S.Sx2, S.Sx3, S.Sx2y>>>>

\* { a: 0, b: 0, c: 0, r2: null }
ZeroFit == [a |-> Num(0), b |-> Num(0), c |-> Num(0), r2 |-> Null]

\* a + b * x + c * x * x
Yhat(a, b, c, x) == jsAdd(jsAdd(a, jsMul(b, x)), jsMul(jsMul(c, x), x))

\* sst > 0 ? 1 - (sse / sst) : null
FitR2(sse, sst) == IF jsGt(sst, Num(0)) THEN jsSub(Num(1), jsDiv(sse, sst)) ELSE Null

\* the second loop: sse and sst
FitWith(xs, ys, a, b, c, yMean) ==
    [a |-> a, b |-> b, c |-> c,
     r2 |-> FitR2(SumOfValues([i \in 1..Len(xs) |->
                      Square(jsSub(ToNumber(ys[i]), Yhat(a, b, c, ToNumber(xs[i]))))]),
                  SumOfValues([i \in 1..Len(xs) |->
                      Square(jsSub(ToNumber(ys[i]), yMean))]))]

FitFromDet(xs, ys, D, S) ==
    IF DyBelowTolerance(D) THEN ZeroFit
    ELSE FitWith(xs, ys, DyQuot(det(FitMy(S)), D), DyQuot(det(FitMb(S)), D),
                 DyQuot(det(FitMc(S)), D),
                 jsDiv(SumOfValues([i \in 1..Len(ys) |-> ToNumber(ys[i])]), Num(Len(ys))))

FitFromSums(xs, ys, S) == FitFromDet(xs, ys, det(FitM(S)), S)

quadraticFit(xs, ys) ==
    IF Len(xs) < 3 THEN ZeroFit
    ELSE FitFromSums(xs, ys,
                     FitSums([i \in 1..Len(xs) |-> ToDy(xs[i])],
                             [i \in 1..Len(xs) |-> ToDy(ys[i])], Len(xs)))

-----------------------------------------------------------------------------
(* interpolateSeries *)

\* the negation of the skip test of the scan: s[i] is a filled cell
IsFilledCell(v) ==
    ~(v.t = "blank" \/ v.t = "null" \/ ~IsFiniteNum(ToNumber(v)))

\* FillGap with the slope taken over one step instead of over the gap width
FillGapUnitSlope(s, lastIdx, i) ==
    LET dv == jsSub(ToNumber(s[i]), ToNumber(s[lastIdx]))
    IN  [k \in 1..Len(s) |->
           IF lastIdx < k /\ k < i
           THEN jsAdd(ToNumber(s[lastIdx]), jsMul(dv, Num(k - lastIdx)))
           ELSE s[k]]

\* the inner fill loop: cells strictly between lastIdx and i
FillGap(s, lastIdx, i) ==
    LET dv == jsDiv(jsSub(ToNumber(s[i]), ToNumber(s[lastIdx])), Num(i - lastIdx))
    IN  [k \in 1..Len(s) |->
           IF lastIdx < k /\ k < i
           THEN jsAdd(ToNumber(s[lastIdx]), jsMul(dv, Num(k - lastIdx)))
           ELSE s[k]]

\* the scan from position i on; lastIdx = 0 stands for null
RECURSIVE InterpScan(_, _, _)
InterpScan(s, i, lastIdx) ==
    IF i > Len(s) THEN s
    ELSE IF ~IsFilledCell(s[i]) THEN InterpScan(s, i + 1, lastIdx)
    ELSE IF lastIdx = 0 THEN InterpScan(s, i + 1, i)
    ELSE InterpScan(FillGap(s, lastIdx, i), i + 1, i)

\* one call: arg is the caller's array after the call (the function works on
\* a copy, so it is the array passed in), ret is the returned array
interpolateSeries(arr) ==
    [arg |-> arr, ret |-> InterpScan(arr, 1, 0)]

-----------------------------------------------------------------------------
(* Measures list: ranking by effective cost, curve segments, budget-to-target *)

Sectors == {"Power", "Cement"}

\* makeFirmSectorLabel(name): the sector label of the firm itself, whatever
\* the name of the firm
FirmSectorLabel == "Firm"

\* the keys a baselines object may have
BaselineKeys == Sectors \cup {FirmSectorLabel}
AllSectors == "All sectors"

\* details of a measure saved from the Quick tab: { mode: "quick" }
QuickDetails ==
    [mode |-> "quick", saved_cost_includes_carbon_price |-> Null,
     carbon_price_at_save |-> Null, per_year |-> <<>>, representative_index |-> -1]

\* activeBaseline.annual_emissions
ActiveEmissions ==
    IF selectedSector = AllSectors
    THEN LET RECURSIVE SumOver(_)
             SumOver(S) ==
                 IF S = {} THEN Num(0)
                 ELSE LET x == CHOOSE y \in S : TRUE
                      IN  jsAdd(SumOver(S \ {x}), ToNumber(OrZero(baselines[x])))
         IN  SumOver(Sectors)
    ELSE baselines[selectedSector]

\* a filter that looks at the selection only
filteredSelectedOnly == SelectSeq(measures, LAMBDA m : m.selected)

\* the measures that take part in the curve
filtered ==
    SelectSeq(measures,
              LAMBDA m : m.selected /\ (selectedSector = AllSectors \/ m.sector = selectedSector))

\* effective_cost that subtracts the whole current carbon price in both cases
effective_costNoDelta(m, cp) ==
    jsSub(ToNumber(OrZero(m.cost_per_tco2)), ToNumber(OrZero(cp)))

\* the effective cost of one measure at carbon price cp
effective_cost(m, cp) ==
    LET baseCost == ToNumber(OrZero(m.cost_per_tco2))
        cpNow == ToNumber(OrZero(cp))
        savedIncludesCP == Truthy(m.details.saved_cost_includes_carbon_price)
        cpAtSave == ToNumber(OrZero(m.details.carbon_price_at_save))
    IN  IF savedIncludesCP
        THEN jsSub(baseCost, jsSub(cpNow, cpAtSave))
        ELSE jsSub(baseCost, cpNow)

\* the sort comparator: negative when a goes before b
CompareCost(a, b) == jsSub(OrZero(a.effective_cost), OrZero(b.effective_cost))

\* InsertRanked that puts x in front of the entries it ties with
InsertRankedBeforeTies(acc, x) ==
    LET keep == {j \in 1..Len(acc) : jsLt(CompareCost(acc[j], x), Num(0))}
        p == IF keep = {} THEN 0 ELSE MaxOf(keep)
    IN  SubSeq(acc, 1, p) \o <<x>> \o SubSeq(acc, p + 1, Len(acc))

\* one step of the stable sort: x goes behind every entry that does not
\* compare greater than it
InsertRanked(acc, x) ==
    LET keep == {j \in 1..Len(acc) : ~jsGt(CompareCost(acc[j], x), Num(0))}
        p == IF keep = {} THEN 0 ELSE MaxOf(keep)
    IN  SubSeq(acc, 1, p) \o <<x>> \o SubSeq(acc, p + 1, Len(acc))

RECURSIVE SortRanked(_, _)
SortRanked(acc, rest) ==
    IF rest = <<>> THEN acc
    ELSE SortRanked(InsertRanked(acc, Head(rest)), Tail(rest))

\* the ranking of a list of measures: each with its effective cost, sorted
\* ascending by it (Array.prototype.sort is stable)
RankOf(list, cp) ==
    SortRanked(<<>>, [k \in 1..Len(list) |->
                        [m |-> list[k], effective_cost |-> effective_cost(list[k], cp)]])

sorted == RankOf(filtered, carbonPrice)

\* x on the plotted axis for x tons
PlotX(x_cap, denom) ==
    IF mode = "capacity" THEN x_cap
    ELSE IF jsGt(denom, Num(0)) THEN jsMul(jsDiv(x_cap, denom), Num(100)) ELSE Num(0)

\* SegmentsWalk that starts every segment at 0
RECURSIVE SegmentsWalkFromZero(_, _, _, _)
SegmentsWalkFromZero(list, k, cum, segs) ==
    IF k > Len(list) THEN segs
    ELSE
      LET A == ToNumber(OrZero(list[k].m.abatement_tco2))
          C == ToNumber(OrZero(list[k].effective_cost))
      IN  IF ~IsFiniteNum(A) \/ ~IsFiniteNum(C) \/ jsLe(A, Num(0))
          THEN SegmentsWalkFromZero(list, k + 1, cum, segs)
          ELSE
            LET x2_cap == jsAdd(cum, jsMax(Num(0), A))
                denom == ToNumber(OrZero(ActiveEmissions))
                seg == [id |-> list[k].m.id, sector |-> list[k].m.sector,
                        x1_plot |-> PlotX(Num(0), denom), x2_plot |-> PlotX(x2_cap, denom),
                        cost |-> C, abatement |-> A]
            IN  SegmentsWalkFromZero(list, k + 1, x2_cap, Append(segs, seg))

\* the forEach over sorted that builds the segments
RECURSIVE SegmentsWalk(_, _, _, _)
SegmentsWalk(list, k, cum, segs) ==
    IF k > Len(list) THEN segs
    ELSE
      LET A == ToNumber(OrZero(list[k].m.abatement_tco2))
          C == ToNumber(OrZero(list[k].effective_cost))
      IN  IF ~IsFiniteNum(A) \/ ~IsFiniteNum(C) \/ jsLe(A, Num(0))
          THEN SegmentsWalk(list, k + 1, cum, segs)
          ELSE
            LET x1_cap == cum
                x2_cap == jsAdd(cum, jsMax(Num(0), A))
                denom == ToNumber(OrZero(ActiveEmissions))
                seg == [id |-> list[k].m.id, sector |-> list[k].m.sector,
                        x1_plot |-> PlotX(x1_cap, denom), x2_plot |-> PlotX(x2_cap, denom),
                        cost |-> C, abatement |-> A]
            IN  SegmentsWalk(list, k + 1, x2_cap, Append(segs, seg))

segments == SegmentsWalk(sorted, 1, Num(0), <<>>)

totalX == IF Len(segments) > 0 THEN segments[Len(segments)].x2_plot ELSE Num(0)

\* the points of the curve, one per ranked measure
RECURSIVE MaccWalk(_, _, _, _)
MaccWalk(list, k, cumAbate, points) ==
    IF k > Len(list) THEN points
    ELSE
      LET A == ToNumber(OrZero(list[k].m.abatement_tco2))
          C == ToNumber(OrZero(list[k].effective_cost))
          cum2 == jsAdd(cumAbate, jsMax(Num(0), A))
          xIntensityPct == IF jsGt(ToNumber(ActiveEmissions), Num(0))
                           THEN jsMul(jsDiv(cum2, ToNumber(ActiveEmissions)), Num(100))
                           ELSE Num(0)
          pt == [id |-> list[k].m.id, abatement |-> A, cost |-> C, cumAbate |-> cum2,
                 x |-> IF mode = "capacity" THEN cum2 ELSE xIntensityPct]
      IN  MaccWalk(list, k + 1, cum2, Append(points, pt))

maccData == MaccWalk(sorted, 1, Num(0), <<>>)

\* the greedy walk of budgetToTarget: st = [cum, budget, reached]
RECURSIVE BudgetWalk(_, _, _, _)
BudgetWalk(points, k, targetX, st) ==
    IF k > Len(points) THEN st
    ELSE
      LET p == points[k]
          remaining == jsMax(Num(0), jsSub(targetX, st.cum))
          take == jsMin(remaining, p.abatement)
      IN  IF jsGt(take, Num(0))
          THEN LET cum2 == jsAdd(st.cum, take)
               IN  BudgetWalk(points, k + 1, targetX,
                      [cum |-> cum2,
                       budget |-> jsAdd(st.budget, jsMul(take, p.cost)),
                       reached |-> IF mode = "capacity" THEN cum2
                                   ELSE jsMul(jsDiv(cum2, ToNumber(ActiveEmissions)), Num(100))])
          ELSE BudgetWalk(points, k + 1, targetX, st)

budgetToTarget ==
    IF Len(maccData) = 0 THEN [targetReached |-> Num(0), budget |-> Num(0)]
    ELSE
      LET targetX == IF mode = "capacity"
                     THEN jsMul(ToNumber(ActiveEmissions), jsDiv(targetIntensityPct, Num(100)))
                     ELSE targetIntensityPct
          st == BudgetWalk(maccData, 1, targetX,
                           [cum |-> Num(0), budget |-> Num(0), reached |-> Num(0)])
          maxPossible == IF mode = "capacity" THEN st.cum
                         ELSE IF jsGt(ToNumber(ActiveEmissions), Num(0))
                              THEN jsMul(jsDiv(st.cum, ToNumber(ActiveEmissions)), Num(100))
                              ELSE Num(0)
      IN  [targetReached |-> jsMin(st.reached, maxPossible), budget |-> st.budget]

\* the id of a measure is a positive number, 0 for undefined (the key is
\* present without a value, or absent) or NaNId for NaN
NaNId == -1

\* a === b on ids
SameId(a, b) == a = b /\ a # NaNId

\* Math.max(0, ...list.map(m => m.id)): NaN when an id is undefined or NaN
MaxId(list) ==
    IF \E k \in 1..Len(list) : list[k].id \in {0, NaNId} THEN NaNId
    ELSE MaxOf({0} \cup {list[k].id : k \in 1..Len(list)})

\* id + n
IdPlus(id, n) == IF id = NaNId THEN NaNId ELSE id + n

\* { ...m, ...obj }: every key of obj wins, also one whose value is undefined
Spread(m, obj) ==
    [f \in DOMAIN m \cup DOMAIN obj |-> IF f \in DOMAIN obj THEN obj[f] ELSE m[f]]

\* saveWizard, CREATE new: [...measures, { id, ...obj }]
saveWizardCreate(list, obj) ==
    Append(list, Spread([id |-> IdPlus(MaxId(list), 1)], obj))

\* saveWizard, UPDATE existing: prev.map(m => m.id === obj.id ? { ...m, ...obj } : m)
saveWizardUpdate(list, obj) ==
    [k \in 1..Len(list) |->
        IF SameId(list[k].id, obj.id) THEN Spread(list[k], obj) ELSE list[k]]

\* saveWizard: obj.id != null tells an update from a new measure
saveWizard(list, obj) ==
    IF obj.id # 0 THEN saveWizardUpdate(list, obj) ELSE saveWizardCreate(list, obj)

\* importCSV(rows): append the rows with ids from baseId on
importCSV(list, rows) ==
    list \o [i \in 1..Len(rows) |->
                [rows[i] EXCEPT !.id = IdPlus(IdPlus(MaxId(list), 1), i - 1)]]

\* the table's inline edit of one field in row k: the first measure with the
\* id of the row is replaced by the row with the field set; findIndex gives
\* -1 for an id that is NaN and the list keeps its elements
InlineEdit(list, k, field, val) ==
    IF \A j \in 1..Len(list) : ~SameId(list[j].id, list[k].id) THEN list
    ELSE [list EXCEPT ![MinOf({j \in 1..Len(list) : SameId(list[j].id, list[k].id)})] =
                         [list[k] EXCEPT ![field] = val]]

\* the Delete button of row k: measures.filter(x => x.id !== m.id)
WithoutRow(list, k) == SelectSeq(list, LAMBDA x : ~SameId(x.id, list[k].id))

-----------------------------------------------------------------------------
(* Catalog resolver *)

Categories == {"fuels", "raw", "transport", "waste", "electricity"}

\* the key column of a category
KeyName(cat) == IF cat = "electricity" THEN "state" ELSE "name"

\* String(x).toLowerCase() on the names and states the catalogs hold
ToLowerCase(str) ==
    CASE str = "Coal" -> "coal"
      [] str = "COAL" -> "coal"
      [] str = "Diesel" -> "diesel"
      [] str = "Clinker" -> "clinker"
      [] str = "Truck" -> "truck"
      [] str = "Landfill" -> "landfill"
      [] str = "New Item" -> "new item"
      [] str = "India" -> "india"
      [] str = "INDIA" -> "india"
      [] str = "Gujarat" -> "gujarat"
      [] str = "New State" -> "new state"
      [] OTHER -> str

\* Map.prototype.set on a map kept as the sequence of its entries in
\* insertion order: an existing key keeps its place and gets the new value
MapSet(map, k, v) ==
    IF \E j \in 1..Len(map) : map[j].k = k
    THEN [j \in 1..Len(map) |-> IF map[j].k = k THEN [k |-> k, v |-> v] ELSE map[j]]
    ELSE Append(map, [k |-> k, v |-> v])

\* arr.forEach(x => { if (x?.[keyName]) map.set(String(x[keyName]).toLowerCase(), x) })
RECURSIVE SetAll(_, _, _, _)
SetAll(map, arr, keyName, i) ==
    IF i > Len(arr) THEN map
    ELSE SetAll(IF arr[i][keyName] # "" THEN MapSet(map, ToLowerCase(arr[i][keyName]), arr[i])
                ELSE map,
                arr, keyName, i + 1)

\* mergedBy with the keys taken as written, not lower-cased
RECURSIVE SetAllCaseSensitive(_, _, _, _)
SetAllCaseSensitive(map, arr, keyName, i) ==
    IF i > Len(arr) THEN map
    ELSE SetAllCaseSensitive(IF arr[i][keyName] # "" THEN MapSet(map, arr[i][keyName], arr[i])
                             ELSE map,
                             arr, keyName, i + 1)

mergedByCaseSensitive(arrA, arrB, keyName) ==
    LET map == SetAllCaseSensitive(SetAllCaseSensitive(<<>>, arrA, keyName, 1), arrB, keyName, 1)
    IN  [j \in 1..Len(map) |-> map[j].v]

\* Array.from(map.values()) after the sample rows, then the custom rows, were set
mergedBy(arrA, arrB, keyName) ==
    LET map == SetAll(SetAll(<<>>, arrA, keyName, 1), arrB, keyName, 1)
    IN  [j \in 1..Len(map) |-> map[j].v]

resolvedCatalogs ==
    IF catalogMode = "sample" THEN [c \in Categories |-> dataSources[c]]
    ELSE IF catalogMode = "custom" THEN [c \in Categories |-> customCatalogs[c]]
    ELSE [c \in Categories |-> mergedBy(dataSources[c], customCatalogs[c], KeyName(c))]

\* a catalog row of a non-electricity category, of the electricity category
ItemRow(name, price, ef) ==
    [name |-> name, unit |-> "t", price_per_unit_inr |-> price, ef_tco2_per_unit |-> ef]

ElecRow(state, price, ef) ==
    [state |-> state, price_per_mwh_inr |-> price, ef_tco2_per_mwh |-> ef]

\* addRow: the row a click on "+ Add Row" appends to the open tab
NewRow(cat) ==
    IF cat = "electricity" THEN ElecRow("New State", Num(0), Rat(71, 100))
    ELSE ItemRow("New Item", Num(0), Num(0))

-----------------------------------------------------------------------------
(* Measure wizard: the computation engine and the template save *)

YEARS == <<2025, 2030, 2035, 2040, 2045, 2050>>
BASE_YEAR == 2025
UnitScale == 10000000

\* a catalog lookup that found nothing (undefined)
NoItemRow == [name |-> "", unit |-> "", price_per_unit_inr |-> Null, ef_tco2_per_unit |-> Null]
NoElecRow == [state |-> "", price_per_mwh_inr |-> Null, ef_tco2_per_mwh |-> Null]

\* DS.find(x => x.name === ln.name)
FindByName(DS, name) ==
    LET hits == {j \in 1..Len(DS) : DS[j].name = name}
    IN  IF hits = {} THEN NoItemRow ELSE DS[MinOf(hits)]

\* DS_ELECTRICITY.find(x => x.state === ln.state) || DS_ELECTRICITY[0]
FindByState(DS, state) ==
    LET hits == {j \in 1..Len(DS) : DS[j].state = state}
    IN  IF hits # {} THEN DS[MinOf(hits)] ELSE IF Len(DS) > 0 THEN DS[1] ELSE NoElecRow

getUnitPrice(row) == Coalesce(row.price_per_unit_inr, Num(0))
getEFperUnit(row) == Coalesce(row.ef_tco2_per_unit, Num(0))
getElecPricePerMWh(row) == Coalesce(row.price_per_mwh_inr, Num(500))
getElecEFperMWh(row) == Coalesce(row.ef_tco2_per_mwh, Rat(71, 100))

\* Math.max(0, year - BASE_YEAR) for the year at JS index i
YearsSinceBase(i) == IF YEARS[i + 1] - BASE_YEAR > 0 THEN YEARS[i + 1] - BASE_YEAR ELSE 0

\* the adoption fraction of year i, clamped to [0, 1]
AdoptionAt(i) == jsMax(Num(0), jsMin(Num(1), ToNumber(OrZero(adoption[i + 1]))))

\* (1 + pct / 100) ^ yearsSinceBase
DriftFactor(pct, i) ==
    jsPow(jsAdd(Num(1), jsDiv(ToNumber(OrZero(pct)), Num(100))), YearsSinceBase(i))

\* an effective price that takes an entered 0 for no override
ItemEffPriceTruthyOverride(ln, DS, i) ==
    jsMul(ToNumber(IF Truthy(ln.priceOv) THEN ln.priceOv
                   ELSE getUnitPrice(FindByName(DS, ln.name))),
          DriftFactor(ln.priceEscPctYr, i))

\* effPrice and effEf of a fuel / raw / transport / waste line in year i
ItemEffPrice(ln, DS, i) ==
    jsMul(ToNumber(Coalesce(ln.priceOv, getUnitPrice(FindByName(DS, ln.name)))),
          DriftFactor(ln.priceEscPctYr, i))

ItemEffEf(ln, DS, i) ==
    jsMul(ToNumber(Coalesce(ln.efOv, getEFperUnit(FindByName(DS, ln.name)))),
          DriftFactor(ln.efEscPctYr, i))

\* effPrice and effEf of an electricity line in year i
ElecEffPrice(ln, DS, i) ==
    jsMul(ToNumber(Coalesce(ln.priceOv, getElecPricePerMWh(FindByState(DS, ln.state)))),
          DriftFactor(ln.priceEscPctYr, i))

\* an effective EF that takes an entered 0 for no override
ElecEffEfTruthyOverride(ln, DS, i) ==
    IF Truthy(ln.efOvPerYear[i + 1])
    THEN ToNumber(ln.efOvPerYear[i + 1])
    ELSE jsMul(ToNumber(getElecEFperMWh(FindByState(DS, ln.state))),
               DriftFactor(ln.efEscPctYr, i))

ElecEffEf(ln, DS, i) ==
    IF ln.efOvPerYear[i + 1].t # "blank" /\ ln.efOvPerYear[i + 1].t # "null"
    THEN ToNumber(ln.efOvPerYear[i + 1])
    ELSE jsMul(ToNumber(getElecEFperMWh(FindByState(DS, ln.state))),
               DriftFactor(ln.efEscPctYr, i))

\* what one line adds in a year: qty * effEf tons and (qty * effPrice) / 1e7 crore
LineTerms(qty, effEf, effPrice) ==
    [t |-> jsMul(qty, effEf), cr |-> jsDiv(jsMul(qty, effPrice), Num(UnitScale))]

ItemLineTerms(ln, DS, i) ==
    LineTerms(jsMul(AdoptionAt(i), ToNumber(OrZero(ln.delta[i + 1]))),
              ItemEffEf(ln, DS, i), ItemEffPrice(ln, DS, i))

ElecLineTerms(ln, DS, i) ==
    LineTerms(jsMul(AdoptionAt(i), ToNumber(OrZero(ln.deltaMWh[i + 1]))),
              ElecEffEf(ln, DS, i), ElecEffPrice(ln, DS, i))

\* let fuel_t = 0, raw_t = 0, trans_t = 0, waste_t = 0, elec_t = 0; let driver_cr = 0
NoDrivers ==
    [fuel_t |-> Num(0), raw_t |-> Num(0), trans_t |-> Num(0), waste_t |-> Num(0),
     elec_t |-> Num(0), driver_cr |-> Num(0)]

\* <category>_t += qty * effEf; driver_cr += (qty * effPrice) / 10_000_000
AddLine(sums, field, terms) ==
    [sums EXCEPT ![field] = jsAdd(@, terms.t), !.driver_cr = jsAdd(@, terms.cr)]

\* for (const ln of lines) over a fuel / raw / transport / waste category
RECURSIVE ItemLoop(_, _, _, _, _, _)
ItemLoop(sums, field, lines, DS, i, k) ==
    IF k > Len(lines) THEN sums
    ELSE ItemLoop(AddLine(sums, field, ItemLineTerms(lines[k], DS, i)), field, lines, DS, i, k + 1)

\* for (const ln of elecLines)
RECURSIVE ElecLoop(_, _, _, _, _)
ElecLoop(sums, lines, DS, i, k) ==
    IF k > Len(lines) THEN sums
    ELSE ElecLoop(AddLine(sums, "elec_t", ElecLineTerms(lines[k], DS, i)), lines, DS, i, k + 1)

\* the five loops of a year, in the order of the code
DriverLoops(DS, i) ==
    ElecLoop(
      ItemLoop(
        ItemLoop(
          ItemLoop(
            ItemLoop(NoDrivers, "fuel_t", fuelLines, DS["fuels"], i, 1),
            "raw_t", rawLines, DS["raw"], i, 1),
          "trans_t", transLines, DS["transport"], i, 1),
        "waste_t", wasteLines, DS["waste"], i, 1),
      elecLines, DS["electricity"], i, 1)

\* (R * Math.pow(1 + R, N)) / (Math.pow(1 + R, N) - 1), for a whole number N
AnnuityFormula(R, pw) == jsDiv(jsMul(R, pw), jsSub(pw, Num(1)))

\* annuityFactor that lets a tenure of 0 through
annuityFactorStrictTenure(r, n) ==
    LET R == ToNumber(r)
        N == ToNumber(n)
    IN  IF ~IsFiniteNum(R) \/ ~IsFiniteNum(N) \/ jsLt(N, Num(0)) THEN Num(0)
        ELSE IF jsLt(jsAbs(R), Rat(1, 1000000000)) THEN jsDiv(Num(1), N)
        ELSE AnnuityFormula(R, jsPow(jsAdd(Num(1), R), N.n))

annuityFactor(r, n) ==
    LET R == ToNumber(r)
        N == ToNumber(n)
    IN  IF ~IsFiniteNum(R) \/ ~IsFiniteNum(N) \/ jsLe(N, Num(0)) THEN Num(0)
        ELSE IF jsLt(jsAbs(R), Rat(1, 1000000000)) THEN jsDiv(Num(1), N)
        ELSE AnnuityFormula(R, jsPow(jsAdd(Num(1), R), N.n))

\* DirectSum with the year's total clamped at 0
DirectSumClamped(fuel_t, raw_t, trans_t, waste_t, elec_t, other_t) ==
    jsMax(Num(0),
          jsAdd(jsAdd(jsAdd(jsAdd(jsAdd(fuel_t, raw_t), trans_t), waste_t), elec_t), other_t))

\* direct_t = fuel_t + raw_t + trans_t + waste_t + elec_t + other_t
DirectSum(fuel_t, raw_t, trans_t, waste_t, elec_t, other_t) ==
    jsAdd(jsAdd(jsAdd(jsAdd(jsAdd(fuel_t, raw_t), trans_t), waste_t), elec_t), other_t)

\* financedAnnual_cr
FinancedAnnual(capex_financed_cr, i_nominal, n_tenure) ==
    IF jsGt(capex_financed_cr, Num(0)) /\ jsGt(i_nominal, Num(0)) /\ jsGt(n_tenure, Num(0))
    THEN jsMul(capex_financed_cr, annuityFactor(i_nominal, n_tenure))
    ELSE Num(0)

\* the stack and financing values of year i
StackAt(i) ==
    [opex_cr |-> ToNumber(OrZero(stack["opex_cr"][i + 1])),
     savings_cr |-> ToNumber(OrZero(stack["savings_cr"][i + 1])),
     other_cr |-> ToNumber(OrZero(stack["other_cr"][i + 1])),
     capex_upfront_cr |-> ToNumber(OrZero(stack["capex_upfront_cr"][i + 1])),
     financedAnnual_cr |->
         FinancedAnnual(ToNumber(OrZero(stack["capex_financed_cr"][i + 1])),
                        jsDiv(ToNumber(OrZero(stack["interest_rate_pct"][i + 1])), Num(100)),
                        ToNumber(OrZero(stack["financing_tenure_years"][i + 1])))]

\* a net cost that leaves the financed annual cost out
NetCostWithoutFinancing(d, st) ==
    jsSub(jsAdd(jsAdd(d.driver_cr, st.opex_cr), st.other_cr), st.savings_cr)

\* net_cost_cr = (driver_cr + opex_cr + other_cr - savings_cr) + financedAnnual_cr
NetCost(d, st) ==
    jsAdd(jsSub(jsAdd(jsAdd(d.driver_cr, st.opex_cr), st.other_cr), st.savings_cr),
          st.financedAnnual_cr)

\* cashflow_inr_wo_cp
CashflowWithoutCP(d, st) ==
    jsMul(jsSub(jsSub(jsSub(jsSub(jsSub(st.savings_cr, st.opex_cr), d.driver_cr), st.other_cr),
                      st.financedAnnual_cr), st.capex_upfront_cr),
          Num(UnitScale))

\* the object a year's callback returns
YearEntry(year, d, other_t, st, cp, direct_t, net_cost_cr, cashflow_inr_wo_cp) ==
    [year |-> year, direct_t |-> direct_t, net_cost_cr |-> net_cost_cr,
     implied_cost_per_t_wo |->
         IF jsGt(direct_t, Num(0))
         THEN jsDiv(jsMul(net_cost_cr, Num(UnitScale)), direct_t) ELSE Num(0),
     implied_cost_per_t_w |->
         IF jsGt(direct_t, Num(0))
         THEN jsDiv(jsSub(jsMul(net_cost_cr, Num(UnitScale)), jsMul(cp, direct_t)), direct_t)
         ELSE Num(0),
     cashflow_inr_wo_cp |-> cashflow_inr_wo_cp,
     cashflow_inr_w_cp |-> jsAdd(cashflow_inr_wo_cp, jsMul(cp, direct_t)),
     pieces |-> [fuel_t |-> d.fuel_t, raw_t |-> d.raw_t, trans_t |-> d.trans_t,
                 waste_t |-> d.waste_t, elec_t |-> d.elec_t, other_t |-> other_t,
                 driver_cr |-> d.driver_cr, opex_cr |-> st.opex_cr, other_cr |-> st.other_cr,
                 savings_cr |-> st.savings_cr, financedAnnual_cr |-> st.financedAnnual_cr,
                 capex_upfront_cr |-> st.capex_upfront_cr]]

\* the year's totals from the driver sums d, other_t and the stack values st
YearTotals(year, d, other_t, st, cp) ==
    YearEntry(year, d, other_t, st, cp,
              DirectSum(d.fuel_t, d.raw_t, d.trans_t, d.waste_t, d.elec_t, other_t),
              NetCost(d, st), CashflowWithoutCP(d, st))

\* the perYear entry of the year at JS index i
PerYearEntry(i) ==
    YearTotals(YEARS[i + 1], DriverLoops(resolvedCatalogs, i),
               jsMul(AdoptionAt(i), ToNumber(OrZero(otherDirectT[i + 1]))),
               StackAt(i), ToNumber(OrZero(carbonPrice)))

\* years.indexOf(y), -1 when absent
IndexOfYear(years, y) ==
    LET hits == {j \in 1..Len(years) : years[j] = y}
    IN  IF hits = {} THEN -1 ELSE MinOf(hits) - 1

\* RepIdxOf that takes the first year whose direct_t is not negative
RepIdxOfNonNegative(years, perYear) ==
    LET hits == {j \in 1..Len(perYear) : jsLe(Num(0), perYear[j].direct_t)}
    IN  IF hits # {} THEN MinOf(hits) - 1
        ELSE IF IndexOfYear(years, 2035) >= 0 THEN IndexOfYear(years, 2035)
        ELSE Len(years) \div 2

\* the representative index: perYear.findIndex(y => y.direct_t > 0), with the
\* fallback to the index of 2035, else to Math.floor(years.length / 2)
RepIdxOf(years, perYear) ==
    LET hits == {j \in 1..Len(perYear) : jsGt(perYear[j].direct_t, Num(0))}
    IN  IF hits # {} THEN MinOf(hits) - 1
        ELSE IF IndexOfYear(years, 2035) >= 0 THEN IndexOfYear(years, 2035)
        ELSE Len(years) \div 2

\* what the memo returns for the entries perYear and the index repIdx
ComputedWith(perYear, repIdx) ==
    [perYear |-> perYear, repIdx |-> repIdx, rep |-> perYear[repIdx + 1]]

ComputedFrom(perYear) == ComputedWith(perYear, RepIdxOf(YEARS, perYear))

computed == ComputedFrom([j \in 1..Len(YEARS) |-> PerYearEntry(j - 1)])

\* perYear.map(y => y[field])
FieldOf(perYear, field) == [j \in 1..Len(perYear) |-> perYear[j][field]]

\* perYear.reduce((s, y) => s + Math.max(0, y.direct_t), 0)
SumDirect(perYear) ==
    SumOfValues([j \in 1..Len(perYear) |-> jsMax(Num(0), perYear[j].direct_t)])

\* perYear.reduce((s, y) => s + (y.net_cost_cr * 10_000_000), 0)
SumCostInrWO(perYear) ==
    SumOfValues([j \in 1..Len(perYear) |-> jsMul(perYear[j].net_cost_cr, Num(UnitScale))])

\* the same sum with the carbon price times direct_t taken off each year
SumCostInrW(perYear, cp) ==
    SumOfValues([j \in 1..Len(perYear) |->
        jsSub(jsMul(perYear[j].net_cost_cr, Num(UnitScale)), jsMul(cp, perYear[j].direct_t))])

\* maxIter of irr when the caller passes none
DefaultMaxIter == 100

\* sumDirect > 0 ? sumCost / sumDirect : 0
AvgCost(sumCost, sumDirect) ==
    IF jsGt(sumDirect, Num(0)) THEN jsDiv(sumCost, sumDirect) ELSE Num(0)

\* the finance object of the memo for the discount rate r = Number(meta.discount_rate || 0.10)
FinanceWith(perYear, years, flowsWO, flowsW, r, cp) ==
    [npvWO |-> npv(r, flowsWO, years, BASE_YEAR),
     npvW |-> npv(r, flowsW, years, BASE_YEAR),
     irrWO |-> irr(flowsWO, years, BASE_YEAR, GuessLow, GuessHigh, Tol, DefaultMaxIter),
     irrW |-> irr(flowsW, years, BASE_YEAR, GuessLow, GuessHigh, Tol, DefaultMaxIter),
     avgCostWO |-> AvgCost(SumCostInrWO(perYear), SumDirect(perYear)),
     avgCostW |-> AvgCost(SumCostInrW(perYear, cp), SumDirect(perYear)),
     sumDirect |-> SumDirect(perYear)]

FinanceOf(perYear, discount_rate) ==
    FinanceWith(perYear, FieldOf(perYear, "year"), FieldOf(perYear, "cashflow_inr_wo_cp"),
                FieldOf(perYear, "cashflow_inr_w_cp"),
                ToNumber(IF Truthy(discount_rate) THEN discount_rate ELSE Rat(1, 10)),
                ToNumber(OrZero(carbonPrice)))

\* the whole object the memo returns: perYear, repIdx, rep and finance
ComputedWithFinance(c, discount_rate) ==
    [perYear |-> c.perYear, repIdx |-> c.repIdx, rep |-> c.rep,
     finance |-> FinanceOf(c.perYear, discount_rate)]

\* d.mode === "template_db_multiline"
IsTemplate(m) == m.details.mode = "template_db_multiline"

\* the object saveTemplate hands to onSave
TemplateMeasure(c) ==
    LET repAbate == jsMax(Num(0), c.rep.direct_t)
        repCost == IF applyCarbonPriceInSave THEN c.rep.implied_cost_per_t_w
                   ELSE c.rep.implied_cost_per_t_wo
    IN  [id |-> IF editingMeasure = Null THEN 0 ELSE editingMeasure.id,
         sector |-> "Power", abatement_tco2 |-> repAbate, cost_per_tco2 |-> repCost,
         selected |-> TRUE,
         details |-> [mode |-> "template_db_multiline",
                      adoption |-> adoption,
                      drivers |-> [fuel_lines |-> fuelLines, raw_lines |-> rawLines,
                                   transport_lines |-> transLines, waste_lines |-> wasteLines,
                                   electricity_lines |-> elecLines,
                                   other_direct_t |-> otherDirectT],
                      stack |-> stack,
                      saved_cost_includes_carbon_price |->
                          IF applyCarbonPriceInSave THEN JsTrue ELSE JsFalse,
                      carbon_price_at_save |-> ToNumber(OrZero(carbonPrice)),
                      per_year |-> c.perYear,
                      representative_index |-> c.repIdx]]

\* YEARS.map(() => 0) and YEARS.map(() => "")
makeZeros == [j \in 1..Len(YEARS) |-> Num(0)]
makeEmptyEf == [j \in 1..Len(YEARS) |-> Blank]

\* a series that holds v in every year
Flat(v) == [j \in 1..Len(YEARS) |-> v]

\* the lines a freshly opened wizard starts with
ItemLine(name, delta) ==
    [id |-> 1, name |-> name, priceOv |-> Null, efOv |-> Null,
     priceEscPctYr |-> Num(0), efEscPctYr |-> Num(0), delta |-> delta]

ElecLine(state, efOvPerYear, deltaMWh) ==
    [id |-> 1, state |-> state, priceOv |-> Null, priceEscPctYr |-> Num(0),
     efEscPctYr |-> Num(0), efOvPerYear |-> efOvPerYear, deltaMWh |-> deltaMWh]

DefaultItemLines(DS) == <<ItemLine(IF Len(DS) > 0 THEN DS[1].name ELSE "", makeZeros)>>

DefaultElecLines(DS) ==
    <<ElecLine(IF Len(DS) > 0 /\ DS[1].state # "" THEN DS[1].state ELSE "India",
               makeEmptyEf, makeZeros)>>

DefaultAdoption == [j \in 1..Len(YEARS) |-> IF j = 1 THEN Num(0) ELSE Rat(j - 1, 5)]

StackKeys == {"opex_cr", "savings_cr", "other_cr", "capex_upfront_cr", "capex_financed_cr",
              "financing_tenure_years", "interest_rate_pct"}

DefaultStack ==
    [k \in StackKeys |->
       IF k = "financing_tenure_years" THEN Flat(Num(10))
       ELSE IF k = "interest_rate_pct" THEN Flat(Num(7))
       ELSE makeZeros]

\* the state a mounting wizard starts from
WizardDefaults ==
    /\ adoption = DefaultAdoption
    /\ otherDirectT = makeZeros
    /\ fuelLines = DefaultItemLines(resolvedCatalogs["fuels"])
    /\ rawLines = DefaultItemLines(resolvedCatalogs["raw"])
    /\ transLines = DefaultItemLines(resolvedCatalogs["transport"])
    /\ wasteLines = DefaultItemLines(resolvedCatalogs["waste"])
    /\ elecLines = DefaultElecLines(resolvedCatalogs["electricity"])
    /\ stack = DefaultStack

-----------------------------------------------------------------------------
(* Bounds *)

MaxSeriesLen == 5
MaxMeasures == 3
MaxCustomRows == 2
MaxIter == 2

\* cell values a series can hold
CellValues == {Blank, Null, Text, Num(5), Num(20), NumStr(8)}

\* details carried by an imported CSV row that was saved with the carbon
\* price included, at a carbon price of 500
ImportedDetailsWithCP ==
    [mode |-> "absent", saved_cost_includes_carbon_price |-> JsTrue,
     carbon_price_at_save |-> Num(500), per_year |-> <<>>, representative_index |-> -1]

EmptyCatalogs == [c \in Categories |-> <<>>]

\* sample catalogs as the data files may hold them: well formed; with two
\* fuel rows whose names differ only in case; with an electricity row that
\* has no state
WellFormedSample ==
    [c \in Categories |->
       CASE c = "fuels" -> <<ItemRow("Coal", Num(7000), Num(2)),
                            ItemRow("Diesel", Num(90000), Num(3))>>
         [] c = "raw" -> <<ItemRow("Clinker", Num(4000), Num(1))>>
         [] c = "transport" -> <<ItemRow("Truck", Num(50), Num(1))>>
         [] c = "waste" -> <<ItemRow("Landfill", Num(300), Num(1))>>
         [] OTHER -> <<ElecRow("India", Num(5000), Rat(71, 100)),
                       ElecRow("Gujarat", Num(4800), Rat(1, 2))>>]

SampleWithRepeatedKey ==
    [WellFormedSample EXCEPT !["fuels"] =
        <<ItemRow("Coal", Num(7000), Num(2)), ItemRow("COAL", Num(8000), Num(3)),
          ItemRow("Diesel", Num(90000), Num(3))>>]

SampleWithKeylessRow ==
    [WellFormedSample EXCEPT !["electricity"] =
        <<ElecRow("", Num(5000), Rat(71, 100)), ElecRow("India", Num(5000), Rat(71, 100))>>]

SampleInputs == {WellFormedSample, SampleWithRepeatedKey, SampleWithKeylessRow}

\* what the user types into the key column of a custom row
KeyInputs(cat) == IF cat = "electricity" THEN {"INDIA", ""} ELSE {"COAL", ""}

CostInputs == {Num(50), Num(100)}

\* what the user types into a firm's name field
FirmNameInputs == {"", "Acme"}

\* the carbon price field of the Create new firm form
NewFirmCarbonPrices == {Num(0)}

CarbonPriceInputs == {Num(0), Num(50), Num(700)}
EmissionsInputs == {Num(0), Num(200)}
TargetInputs == {Num(20), Num(100)}

-----------------------------------------------------------------------------
(* Firms and persistence *)

MaxFirmId == 2

\* the measures and baselines of the sample data files
SampleDetails == [QuickDetails EXCEPT !.mode = "absent"]

SampleMeasures ==
    <<[id |-> 1, sector |-> "Power", abatement_tco2 |-> Num(10), cost_per_tco2 |-> Num(50),
       selected |-> TRUE, details |-> SampleDetails]>>

SampleBaselines ==
    [x \in BaselineKeys |->
        IF x = "Power" THEN Num(200) ELSE IF x \in Sectors THEN Num(0) ELSE Null]

\* DEFAULT_BASELINES = {}: no sector has an entry
EmptyBaselines == [x \in BaselineKeys |-> Null]

\* JSON.parse(JSON.stringify(v)) of a value: NaN and the infinities become null
ToJson(v) == IF v.t = "nan" \/ v.t = "inf" THEN Null ELSE v

\* an id that is undefined is left out and an id that is NaN becomes null:
\* both are an id of 0 here
JsonOfMeasures(list) ==
    [k \in 1..Len(list) |->
        [list[k] EXCEPT !.id = IF @ = NaNId THEN 0 ELSE @,
                        !.abatement_tco2 = ToJson(@), !.cost_per_tco2 = ToJson(@)]]

JsonOfRows(cat, rows) ==
    [k \in 1..Len(rows) |->
        IF cat = "electricity"
        THEN [rows[k] EXCEPT !.price_per_mwh_inr = ToJson(@), !.ef_tco2_per_mwh = ToJson(@)]
        ELSE [rows[k] EXCEPT !.price_per_unit_inr = ToJson(@), !.ef_tco2_per_unit = ToJson(@)]]

\* the macc_firm_1_* items as the persist effect writes them
StoredFirm(ms, bl, cp, cc, cm) ==
    [measures |-> JsonOfMeasures(ms),
     baselines |-> [x \in BaselineKeys |-> ToJson(bl[x])],
     carbon_price |-> ToJson(cp),
     catalogs |-> [c \in Categories |-> JsonOfRows(c, cc[c])],
     catalog_mode |-> cm]

\* the items the default firm is seeded with on the first launch
SeededFirm(ds) == StoredFirm(SampleMeasures, SampleBaselines, Num(0), ds, "merged")

\* what getItem and the "[]", "{}", "0" and "merged" defaults give for a
\* firm that has no items
NoItems == StoredFirm(<<>>, EmptyBaselines, Num(0), EmptyCatalogs, "merged")

\* the ids a firm may have
FirmIds == 1..MaxFirmId

\* no firm has items
NoStoredFirms == [id \in FirmIds |-> <<>>]

\* the items of firm id as getItem and the defaults give them
ItemsOf(store, id) == IF store[id] = <<>> THEN NoItems ELSE store[id][1]

\* defaultFirm
DefaultFirm == [id |-> 1, name |-> "My Firm"]

\* normalizeMeasures
normalizeMeasures(arr) ==
    [k \in 1..Len(arr) |->
        [arr[k] EXCEPT !.id = IF @ \notin {0, NaNId} THEN @ ELSE k,
                       !.abatement_tco2 = ToNumber(OrZero(@)),
                       !.cost_per_tco2 = ToNumber(OrZero(@))]]

\* normalizeFRTW and normalizeElec over the rows of a category
normalizeRows(cat, rows) ==
    [k \in 1..Len(rows) |->
        IF cat = "electricity"
        THEN [rows[k] EXCEPT !.price_per_mwh_inr = ToNumber(Coalesce(@, Num(0))),
                             !.ef_tco2_per_mwh = ToNumber(Coalesce(@, Rat(71, 100)))]
        ELSE [rows[k] EXCEPT !.price_per_unit_inr = ToNumber(Coalesce(@, Num(0))),
                             !.ef_tco2_per_unit = ToNumber(Coalesce(@, Num(0)))]]

\* loadFirmDataIntoState on the stored items st: an empty measures list and
\* a baselines object without keys fall back to the sample data
loadFirmDataIntoState(st) ==
    /\ baselines' = IF \E x \in BaselineKeys : st.baselines[x] # Null
                    THEN st.baselines ELSE SampleBaselines
    /\ measures' = normalizeMeasures(IF Len(st.measures) > 0 THEN st.measures
                                     ELSE SampleMeasures)
    /\ carbonPrice' = ToNumber(OrZero(st.carbon_price))
    /\ customCatalogs' = [c \in Categories |-> normalizeRows(c, st.catalogs[c])]
    /\ catalogMode' = st.catalog_mode

\* the effect of useLocalStorage on firms and activeFirmId and the effect
\* "persist per-firm updates", which run after every render in which one of
\* the values they write has changed; store holds the macc_firm_<id>_* items
\* as the handler has left them
PersistOver(store) ==
    localStorage' =
        [macc_firms |-> firms',
         macc_active_firm_id |-> activeFirmId',
         firm |-> IF activeFirmId' = 0 THEN store
                  ELSE [store EXCEPT ![activeFirmId'] =
                           <<StoredFirm(measures', baselines', carbonPrice', customCatalogs',
                                        catalogMode')>>]]

\* the same after a handler that has not written to localStorage itself
PersistEffect == PersistOver(localStorage.firm)

\* the effect "initialize default firm" once the sample data ds has arrived
InitializeFirm(ds) ==
    IF firms = <<>>
    THEN /\ firms' = <<DefaultFirm>>
         /\ activeFirmId' = 1
         /\ loadFirmDataIntoState(SeededFirm(ds))
    ELSE /\ firms' = firms
         /\ activeFirmId' = IF activeFirmId = 0 THEN firms[1].id ELSE activeFirmId
         /\ loadFirmDataIntoState(
                ItemsOf(localStorage.firm,
                        IF activeFirmId = 0 THEN firms[1].id ELSE activeFirmId))

\* the state of the active firm
FirmState(ms, bl, cp, cc, cm) ==
    [measures |-> ms, baselines |-> bl, carbonPrice |-> cp, customCatalogs |-> cc,
     catalogMode |-> cm]

\* the text-fix script has not been run
ScriptIdle ==
    /\ fileText = ""
    /\ backups = <<>>
    /\ runLog = <<>>

\* the first firm is open and its items are stored
FirmOpen ==
    /\ firms = <<DefaultFirm>>
    /\ activeFirmId = 1
    /\ dataLoaded = TRUE
    /\ beforeReload = <<>>
    /\ stateWhenLeft = NoStoredFirms
    /\ localStorage =
         [macc_firms |-> <<DefaultFirm>>, macc_active_firm_id |-> 1,
          firm |-> [NoStoredFirms EXCEPT ![1] =
                      <<StoredFirm(measures, baselines, carbonPrice, customCatalogs,
                                   catalogMode)>>]]

\* the same before the sample data files have arrived
FirmOpenBeforeData ==
    /\ firms = <<DefaultFirm>>
    /\ activeFirmId = 1
    /\ dataLoaded = FALSE
    /\ beforeReload = <<>>
    /\ stateWhenLeft = NoStoredFirms
    /\ localStorage =
         [macc_firms |-> <<DefaultFirm>>, macc_active_firm_id |-> 1,
          firm |-> [NoStoredFirms EXCEPT ![1] =
                      <<StoredFirm(measures, baselines, carbonPrice, customCatalogs,
                                   catalogMode)>>]]

-----------------------------------------------------------------------------
(* Specification of interpolateSeries calls *)

SeriesOfLen(n) == [1..n -> CellValues]

\* no interpolateSeries call under way
InterpIdle ==
    /\ series = <<>>
    /\ interpolated = <<>>
    /\ interpCalls = 0

\* the app right after a blank firm has been loaded
AppStart ==
    /\ measures = <<>>
    /\ carbonPrice = Num(0)
    /\ mode = "capacity"
    /\ selectedSector = AllSectors
    /\ baselines = SampleBaselines
    /\ targetIntensityPct = Num(20)

\* the catalogs after the sample data was fetched and a blank firm loaded
CatalogsLoaded ==
    /\ dataSources = WellFormedSample
    /\ customCatalogs = EmptyCatalogs
    /\ catalogMode = "merged"

\* no call of a finance helper under way
NoCall ==
    [fn |-> "none", amounts |-> <<>>, years |-> <<>>, maxIter |-> 0, r |-> Null, n |-> Null]

NotReturned == [t |-> "pending", n |-> 0, d |-> 1]

FinanceIdle ==
    /\ finArgs = NoCall
    /\ finRet = NotReturned

\* no wizard is mounted
WizardClosed ==
    /\ wizardOpen = FALSE
    /\ editingMeasure = Null
    /\ applyCarbonPriceInSave = FALSE
    /\ WizardDefaults

InitInterp ==
    /\ series \in UNION {SeriesOfLen(n) : n \in 0..MaxSeriesLen}
    /\ interpolated = <<>>
    /\ interpCalls = 0
    /\ AppStart
    /\ CatalogsLoaded
    /\ WizardClosed
    /\ FinanceIdle
    /\ FirmOpen
    /\ ScriptIdle

\* onInterpolate: the first call on the entered series
Interpolate ==
    /\ interpCalls = 0
    /\ LET r == interpolateSeries(series)
       IN  /\ series' = r.arg
           /\ interpolated' = r.ret
    /\ interpCalls' = 1
    /\ UNCHANGED <<appVars, catVars, wizVars, finVars, firmVars, scriptVars>>
    /\ PersistEffect

\* onInterpolate pressed again: the stored series is the previous result
InterpolateAgain ==
    /\ interpCalls = 1
    /\ LET r == interpolateSeries(interpolated)
       IN  interpolated' = r.ret
    /\ interpCalls' = 2
    /\ UNCHANGED <<series, appVars, catVars, wizVars, finVars, firmVars, scriptVars>>
    /\ PersistEffect

NextInterp == Interpolate \/ InterpolateAgain

SpecInterp == InitInterp /\ [][NextInterp]_vars

-----------------------------------------------------------------------------
(* Specifications of the measures list and the curve *)

\* saveQuick through saveWizard: a new measure from the Quick tab
SaveQuickNew(abatements, costs, sectorChoice) ==
    /\ Len(measures) < MaxMeasures
    /\ \E a \in abatements, c \in costs, sec \in sectorChoice :
         measures' = saveWizardCreate(measures,
                        [id |-> 0, sector |-> sec, abatement_tco2 |-> a,
                         cost_per_tco2 |-> c, selected |-> TRUE, details |-> QuickDetails])
    /\ UNCHANGED <<carbonPrice, mode, selectedSector, baselines, targetIntensityPct, interpVars, finVars, catVars, wizVars,
                   firmVars, scriptVars>>
    /\ PersistEffect

\* importCSV of a one-row file; abatementCells are the cells of the
\* abatement_tco2 column as parsed by Number(r.abatement_tco2 || ... || 0)
ImportRow(abatementCells, costs, detailChoice) ==
    /\ Len(measures) < MaxMeasures
    /\ \E a \in abatementCells, c \in costs, dtl \in detailChoice :
         measures' = importCSV(measures,
                        <<[id |-> 0, sector |-> "Power", abatement_tco2 |-> ToNumber(OrZero(a)),
                           cost_per_tco2 |-> ToNumber(OrZero(c)), selected |-> TRUE,
                           details |-> dtl]>>)
    /\ UNCHANGED <<carbonPrice, mode, selectedSector, baselines, targetIntensityPct, interpVars, finVars, catVars, wizVars,
                   firmVars, scriptVars>>
    /\ PersistEffect

\* the table's checkbox
ToggleSelected ==
    /\ \E k \in 1..Len(measures) :
         measures' = InlineEdit(measures, k, "selected", ~measures[k].selected)
    /\ UNCHANGED <<carbonPrice, mode, selectedSector, baselines, targetIntensityPct, interpVars, finVars, catVars, wizVars,
                   firmVars, scriptVars>>
    /\ PersistEffect

\* the table's cost input: Number(e.target.value)
EditCost ==
    /\ \E k \in 1..Len(measures), c \in CostInputs :
         measures' = InlineEdit(measures, k, "cost_per_tco2", ToNumber(c))
    /\ UNCHANGED <<carbonPrice, mode, selectedSector, baselines, targetIntensityPct, interpVars, finVars, catVars, wizVars,
                   firmVars, scriptVars>>
    /\ PersistEffect

\* the table's abatement input: Number(e.target.value)
EditAbatement(values) ==
    /\ \E k \in 1..Len(measures), a \in values :
         measures' = InlineEdit(measures, k, "abatement_tco2", ToNumber(a))
    /\ UNCHANGED <<carbonPrice, mode, selectedSector, baselines, targetIntensityPct, interpVars, finVars, catVars, wizVars,
                   firmVars, scriptVars>>
    /\ PersistEffect

SetCarbonPrice ==
    /\ \E v \in CarbonPriceInputs : carbonPrice' = ToNumber(v)
    /\ UNCHANGED <<measures, mode, selectedSector, baselines, targetIntensityPct, interpVars, finVars, catVars, wizVars,
                   firmVars, scriptVars>>
    /\ PersistEffect

SetSelectedSector ==
    /\ \E x \in Sectors \cup {AllSectors} : selectedSector' = x
    /\ UNCHANGED <<measures, carbonPrice, mode, baselines, targetIntensityPct, interpVars, finVars, catVars, wizVars,
                   firmVars, scriptVars>>
    /\ PersistEffect

SetMode ==
    /\ \E x \in {"capacity", "intensity"} : mode' = x
    /\ UNCHANGED <<measures, carbonPrice, selectedSector, baselines, targetIntensityPct, interpVars, finVars, catVars, wizVars,
                   firmVars, scriptVars>>
    /\ PersistEffect

\* the sector manager's emissions input of sector Power
SetBaselineEmissions ==
    /\ \E v \in EmissionsInputs : baselines' = [baselines EXCEPT !["Power"] = ToNumber(v)]
    /\ UNCHANGED <<measures, carbonPrice, mode, selectedSector, targetIntensityPct, interpVars, finVars, catVars, wizVars,
                   firmVars, scriptVars>>
    /\ PersistEffect

\* the target slider
SetTargetIntensityPct ==
    /\ \E v \in TargetInputs : targetIntensityPct' = ToNumber(v)
    /\ UNCHANGED <<measures, carbonPrice, mode, selectedSector, baselines, interpVars, finVars, catVars, wizVars,
                   firmVars, scriptVars>>
    /\ PersistEffect

InitApp == InterpIdle /\ AppStart /\ CatalogsLoaded /\ WizardClosed /\ FinanceIdle /\ FirmOpen /\ ScriptIdle

\* ranking: costs, save flags, selection, sectors and the carbon price vary
NextRank ==
    \/ SaveQuickNew({Num(10)}, CostInputs, Sectors)
    \/ ImportRow({Num(10)}, CostInputs, {ImportedDetailsWithCP})
    \/ ToggleSelected
    \/ EditCost
    \/ SetCarbonPrice
    \/ SetSelectedSector

SpecRank == InitApp /\ [][NextRank]_vars

\* curve and budget: abatements, costs, mode, baseline and target vary
NextCurve ==
    \/ SaveQuickNew({Num(10), Num(30)}, CostInputs, {"Power"})
    \/ ImportRow({Text}, CostInputs, {QuickDetails})
    \/ EditAbatement({Num(-10), Num(10), Num(30)})
    \/ EditCost
    \/ SetMode
    \/ SetBaselineEmissions
    \/ SetTargetIntensityPct

SpecCurve == InitApp /\ [][NextCurve]_vars

\* the app with no measures yet and a carbon price of 50
InitMembership ==
    /\ InterpIdle
    /\ measures = <<>>
    /\ carbonPrice = Num(50)
    /\ mode = "capacity"
    /\ selectedSector = AllSectors
    /\ baselines = SampleBaselines
    /\ targetIntensityPct = Num(20)
    /\ CatalogsLoaded
    /\ WizardClosed
    /\ FinanceIdle
    /\ FirmOpen
    /\ ScriptIdle

\* curve membership: selection, sector filter, mode and baseline vary over
\* Quick measures of sector Cement and imported rows of sector Power, among
\* them rows whose abatement is no number or negative and rows whose cost
\* cell reads "Infinity"
NextMembership ==
    \/ SaveQuickNew({Num(10)}, {Num(100)}, {"Cement"})
    \/ ImportRow({Num(30)}, {Num(70), Inf(1)}, {QuickDetails})
    \/ ImportRow({Text, Num(-10)}, {Num(70)}, {QuickDetails})
    \/ ToggleSelected
    \/ SetSelectedSector
    \/ SetMode
    \/ SetBaselineEmissions

SpecMembership == InitMembership /\ [][NextMembership]_vars

-----------------------------------------------------------------------------
(* Specification of the catalogs and the wizard data switch *)

CustomRowCount ==
    Len(customCatalogs["fuels"]) + Len(customCatalogs["raw"]) + Len(customCatalogs["transport"])
      + Len(customCatalogs["waste"]) + Len(customCatalogs["electricity"])

\* setCat(next) on the open tab
SetCat(tab, next) ==
    /\ customCatalogs' = [customCatalogs EXCEPT ![tab] = next]
    /\ UNCHANGED <<dataSources, catalogMode, appVars, interpVars, finVars, wizVars, firmVars, scriptVars>>
    /\ PersistEffect

\* the sample data files arrive: fetchData sets dataSources and dataLoaded,
\* and the effect "initialize default firm" runs on the change of dataLoaded
FetchDataFrom(samples) ==
    /\ ~dataLoaded
    /\ dataLoaded' = TRUE
    /\ \E ds \in samples :
         /\ dataSources' = ds
         /\ InitializeFirm(ds)
    /\ UNCHANGED <<mode, selectedSector, targetIntensityPct, interpVars, finVars, wizVars,
                   beforeReload, stateWhenLeft, scriptVars>>
    /\ PersistEffect

FetchData == FetchDataFrom(SampleInputs)

\* the app is closed and opened again on the same localStorage: every
\* useState starts from its initial value, useLocalStorage reads firms,
\* activeFirmId and the prefs back, and the effects of the mount run
Reload ==
    /\ dataLoaded
    /\ ~wizardOpen
    /\ beforeReload' = <<FirmState(measures, baselines, carbonPrice, customCatalogs, catalogMode)>>
    /\ measures' = <<>>
    /\ baselines' = EmptyBaselines
    /\ carbonPrice' = Num(0)
    /\ customCatalogs' = EmptyCatalogs
    /\ catalogMode' = "merged"
    /\ dataSources' = EmptyCatalogs
    /\ dataLoaded' = FALSE
    /\ firms' = localStorage.macc_firms
    /\ activeFirmId' = localStorage.macc_active_firm_id
    /\ UNCHANGED <<mode, selectedSector, targetIntensityPct, interpVars, finVars, wizVars,
                   stateWhenLeft, scriptVars>>
    /\ PersistEffect

AddRow ==
    /\ CustomRowCount < MaxCustomRows
    /\ \E tab \in Categories : SetCat(tab, Append(customCatalogs[tab], NewRow(tab)))

\* typing into the key column of row idx
EditRowKey ==
    \E tab \in Categories : \E idx \in 1..Len(customCatalogs[tab]) : \E v \in KeyInputs(tab) :
        SetCat(tab, [customCatalogs[tab] EXCEPT ![idx] =
                        [customCatalogs[tab][idx] EXCEPT ![KeyName(tab)] = v]])

DeleteRow ==
    \E tab \in Categories : \E idx \in 1..Len(customCatalogs[tab]) :
        SetCat(tab, SubSeq(customCatalogs[tab], 1, idx - 1)
                      \o SubSeq(customCatalogs[tab], idx + 1, Len(customCatalogs[tab])))

ResetToSample ==
    \E tab \in Categories :
        /\ CustomRowCount - Len(customCatalogs[tab]) + Len(dataSources[tab]) <= MaxCustomRows
        /\ SetCat(tab, dataSources[tab])

StartBlank == \E tab \in Categories : SetCat(tab, <<>>)

SetCatalogMode ==
    /\ \E x \in {"sample", "custom", "merged"} : catalogMode' = x
    /\ UNCHANGED <<dataSources, customCatalogs, appVars, interpVars, finVars, wizVars, firmVars, scriptVars>>
    /\ PersistEffect

InitCatalog ==
    /\ InterpIdle
    /\ AppStart
    /\ dataSources = EmptyCatalogs
    /\ customCatalogs = EmptyCatalogs
    /\ catalogMode = "merged"
    /\ WizardClosed
    /\ FinanceIdle
    /\ FirmOpenBeforeData
    /\ ScriptIdle

NextCatalog ==
    \/ FetchData
    \/ AddRow
    \/ EditRowKey
    \/ DeleteRow
    \/ ResetToSample
    \/ StartBlank
    \/ SetCatalogMode

SpecCatalog == InitCatalog /\ [][NextCatalog]_vars

-----------------------------------------------------------------------------
(* Firm manager, firm switcher and firm JSON import *)

FirmIdsOf(list) == {list[k].id : k \in 1..Len(list)}

\* the state of the active firm as it is now
CurrentFirmState == FirmState(measures, baselines, carbonPrice, customCatalogs, catalogMode)

\* createFirm: the items written for the new firm; the baselines get a stub
\* with annual_emissions 0 for the firm's own sector label
CreatedItems(startMode, cp, sample) ==
    StoredFirm(IF startMode = "blank" THEN <<>> ELSE SampleMeasures,
               [(IF startMode = "blank" THEN EmptyBaselines ELSE SampleBaselines)
                   EXCEPT ![FirmSectorLabel] = IF @ = Null THEN Num(0) ELSE @],
               cp,
               IF startMode = "blank" THEN EmptyCatalogs ELSE sample,
               "merged")

\* createFirm with the name, start mode and carbon price of the form
createFirm(name, startMode, cp, nextId) ==
    /\ firms' = Append(firms, [id |-> nextId,
                               name |-> IF name = "" THEN "Firm " \o ToString(nextId)
                                        ELSE name])
    /\ activeFirmId' = nextId
    /\ loadFirmDataIntoState(CreatedItems(startMode, cp, dataSources))
    /\ stateWhenLeft' = [stateWhenLeft EXCEPT ![activeFirmId] = <<CurrentFirmState>>,
                                              ![nextId] = <<>>]
    /\ PersistOver([localStorage.firm EXCEPT
                       ![nextId] = <<CreatedItems(startMode, cp, dataSources)>>])

\* the Create Firm button of the Manage Firms modal; the wizard's overlay
\* covers the page while the wizard is open
CreateFirm ==
    /\ dataLoaded
    /\ ~wizardOpen
    /\ MaxOf({0} \cup FirmIdsOf(firms)) + 1 <= MaxFirmId
    /\ \E name \in FirmNameInputs, startMode \in {"sample", "blank"}, cp \in NewFirmCarbonPrices :
         createFirm(name, startMode, cp, MaxOf({0} \cup FirmIdsOf(firms)) + 1)
    /\ UNCHANGED <<mode, selectedSector, targetIntensityPct, dataSources, interpVars, finVars,
                   wizVars, dataLoaded, beforeReload, scriptVars>>

\* setActiveFirmId(id); loadFirmDataIntoState(id)
Activate(id) ==
    /\ activeFirmId' = id
    /\ loadFirmDataIntoState(ItemsOf(localStorage.firm, id))
    /\ stateWhenLeft' = IF id = activeFirmId THEN stateWhenLeft
                        ELSE [stateWhenLeft EXCEPT ![activeFirmId] = <<CurrentFirmState>>]
    /\ UNCHANGED <<firms, mode, selectedSector, targetIntensityPct, dataSources, interpVars,
                   finVars, wizVars, dataLoaded, beforeReload, scriptVars>>
    /\ PersistEffect

\* the firm switcher of the header: another option is chosen
SwitchFirm ==
    /\ dataLoaded
    /\ ~wizardOpen
    /\ \E id \in FirmIdsOf(firms) \ {activeFirmId} : Activate(id)

\* the Use button of a firm of the Manage Firms modal
UseFirm ==
    /\ dataLoaded
    /\ ~wizardOpen
    /\ \E id \in FirmIdsOf(firms) : Activate(id)

\* renameFirm(id, newName); the firm's own sector label stays the key
\* FirmSectorLabel of its stored baselines under every name
RenameFirm ==
    /\ dataLoaded
    /\ ~wizardOpen
    /\ \E id \in FirmIdsOf(firms), newName \in FirmNameInputs :
         /\ firms' = [k \in 1..Len(firms) |->
                         IF firms[k].id = id /\ newName # ""
                         THEN [firms[k] EXCEPT !.name = newName] ELSE firms[k]]
         /\ IF id = activeFirmId
            THEN loadFirmDataIntoState(ItemsOf(localStorage.firm, activeFirmId))
            ELSE UNCHANGED <<measures, baselines, carbonPrice, customCatalogs, catalogMode>>
    /\ UNCHANGED <<activeFirmId, stateWhenLeft, mode, selectedSector, targetIntensityPct,
                   dataSources, interpVars, finVars, wizVars, dataLoaded, beforeReload,
                   scriptVars>>
    /\ PersistEffect

\* a mutant of deleteFirm: the deleted firm stays the active one
deleteFirmKeepingActive(id, next, store) ==
    /\ firms' = next
    /\ stateWhenLeft' = [stateWhenLeft EXCEPT ![id] = <<>>]
    /\ UNCHANGED <<activeFirmId, measures, baselines, carbonPrice, customCatalogs, catalogMode>>
    /\ PersistOver(store)

\* deleteFirm(id) once the user has confirmed
deleteFirm(id, next, store) ==
    /\ firms' = next
    /\ stateWhenLeft' = [stateWhenLeft EXCEPT ![id] = <<>>]
    /\ IF activeFirmId = id
       THEN /\ activeFirmId' = next[1].id
            /\ loadFirmDataIntoState(ItemsOf(store, next[1].id))
       ELSE UNCHANGED <<activeFirmId, measures, baselines, carbonPrice, customCatalogs,
                        catalogMode>>
    /\ PersistOver(store)

\* the Delete button of a firm: refused for the last firm, dropped when the
\* user does not confirm
DeleteFirm ==
    /\ dataLoaded
    /\ ~wizardOpen
    /\ \E id \in FirmIdsOf(firms), confirmed \in BOOLEAN :
         IF Len(firms) <= 1 \/ ~confirmed
         THEN /\ UNCHANGED <<firms, activeFirmId, stateWhenLeft, measures, baselines,
                             carbonPrice, customCatalogs, catalogMode>>
              /\ PersistEffect
         ELSE deleteFirm(id, SelectSeq(firms, LAMBDA f : f.id # id),
                         [localStorage.firm EXCEPT ![id] = <<>>])
    /\ UNCHANGED <<mode, selectedSector, targetIntensityPct, dataSources, interpVars, finVars,
                   wizVars, dataLoaded, beforeReload, scriptVars>>

\* a measure of a firm JSON file; an id of 0 stands for a measure without id
JsonMeasure(id) ==
    [id |-> id, sector |-> "Power", abatement_tco2 |-> Num(10), cost_per_tco2 |-> Num(50),
     selected |-> TRUE, details |-> SampleDetails]

\* firm JSON files: one that fails the shape test, and files whose measures
\* have ids, lack them or repeat them; Null is an absent carbonPrice, <<>>
\* an absent catalogMode, "" an absent name
JsonPayloads ==
    {[wellShaped |-> FALSE, measures |-> <<>>, baselines |-> EmptyBaselines,
      carbonPrice |-> Null, catalogMode |-> <<>>, catalogs |-> EmptyCatalogs, name |-> ""],
     [wellShaped |-> TRUE, measures |-> <<JsonMeasure(1), JsonMeasure(2)>>,
      baselines |-> SampleBaselines, carbonPrice |-> Num(50), catalogMode |-> <<"custom">>,
      catalogs |-> EmptyCatalogs, name |-> "Imported"],
     [wellShaped |-> TRUE, measures |-> <<JsonMeasure(2), JsonMeasure(0)>>,
      baselines |-> SampleBaselines, carbonPrice |-> Null, catalogMode |-> <<>>,
      catalogs |-> EmptyCatalogs, name |-> ""],
     [wellShaped |-> TRUE, measures |-> <<JsonMeasure(0), JsonMeasure(0)>>,
      baselines |-> SampleBaselines, carbonPrice |-> Null, catalogMode |-> <<>>,
      catalogs |-> EmptyCatalogs, name |-> ""],
     [wellShaped |-> TRUE, measures |-> <<>>,
      baselines |-> SampleBaselines, carbonPrice |-> Null, catalogMode |-> <<>>,
      catalogs |-> EmptyCatalogs, name |-> ""]}

\* importFirmFromJson for a payload obj that passes the shape test
importFirmFromJson(obj) ==
    /\ measures' = normalizeMeasures(obj.measures)
    /\ baselines' = obj.baselines
    /\ carbonPrice' = ToNumber(Coalesce(obj.carbonPrice, carbonPrice))
    /\ customCatalogs' = [c \in Categories |-> normalizeRows(c, obj.catalogs[c])]
    /\ catalogMode' = IF obj.catalogMode = <<>> THEN "merged" ELSE obj.catalogMode[1]
    /\ firms' = [k \in 1..Len(firms) |->
                    IF firms[k].id = activeFirmId /\ obj.name # ""
                    THEN [firms[k] EXCEPT !.name = obj.name] ELSE firms[k]]
    /\ PersistOver([localStorage.firm EXCEPT ![activeFirmId] =
                       <<[measures |-> obj.measures, baselines |-> obj.baselines,
                          carbon_price |-> ToNumber(Coalesce(obj.carbonPrice, carbonPrice)),
                          catalogs |-> obj.catalogs,
                          catalog_mode |-> IF obj.catalogMode = <<>> THEN "merged"
                                           ELSE obj.catalogMode[1]]>>])

\* the Import Firm JSON input of the Manage Firms modal
ImportFirmJson ==
    /\ dataLoaded
    /\ ~wizardOpen
    /\ activeFirmId # 0
    /\ UNCHANGED <<activeFirmId, stateWhenLeft, mode, selectedSector, targetIntensityPct,
                   dataSources, interpVars, finVars, wizVars, dataLoaded, beforeReload,
                   scriptVars>>
    /\ \E obj \in JsonPayloads :
         IF obj.wellShaped
         THEN importFirmFromJson(obj)
         ELSE /\ UNCHANGED <<measures, baselines, carbonPrice, customCatalogs, catalogMode,
                             firms>>
              /\ PersistEffect

\* clearAll once the user has confirmed
ClearAll ==
    /\ dataLoaded
    /\ ~wizardOpen
    /\ measures' = <<>>
    /\ UNCHANGED <<carbonPrice, mode, selectedSector, baselines, targetIntensityPct, interpVars,
                   finVars, catVars, wizVars, firmVars, scriptVars>>
    /\ PersistEffect

\* the Delete button of a row of the measures table
DeleteMeasure ==
    /\ dataLoaded
    /\ ~wizardOpen
    /\ \E k \in 1..Len(measures) :
         measures' = WithoutRow(measures, k)
    /\ UNCHANGED <<carbonPrice, mode, selectedSector, baselines, targetIntensityPct, interpVars,
                   finVars, catVars, wizVars, firmVars, scriptVars>>
    /\ PersistEffect

-----------------------------------------------------------------------------
(* Specification of the firm's data across launches of the app *)

\* the first launch: nothing is stored, every state has its initial value
InitFirstLaunch ==
    /\ InterpIdle
    /\ measures = <<>>
    /\ carbonPrice = Num(0)
    /\ mode = "capacity"
    /\ selectedSector = AllSectors
    /\ baselines = EmptyBaselines
    /\ targetIntensityPct = Num(20)
    /\ dataSources = EmptyCatalogs
    /\ customCatalogs = EmptyCatalogs
    /\ catalogMode = "merged"
    /\ WizardClosed
    /\ FinanceIdle
    /\ firms = <<>>
    /\ activeFirmId = 0
    /\ dataLoaded = FALSE
    /\ beforeReload = <<>>
    /\ stateWhenLeft = NoStoredFirms
    /\ localStorage = [macc_firms |-> <<>>, macc_active_firm_id |-> 0, firm |-> NoStoredFirms]
    /\ ScriptIdle

\* the data arrives, the user edits the firm, and the app is closed and
\* opened again
NextPersist ==
    \/ FetchData
    \/ SaveQuickNew({Num(30)}, {Num(100)}, {"Power"})
    \/ SetCarbonPrice
    \/ SetCatalogMode
    \/ Reload

SpecPersist == InitFirstLaunch /\ [][NextPersist]_vars

-----------------------------------------------------------------------------
(* The measure wizard: a filled-in template, its save, later table edits *)

FullAdoption == Flat(Num(1))

AdoptionInputs == {DefaultAdoption, FullAdoption}

\* a series that holds v in the year at JS index i and 0 elsewhere
OnlyAt(i, v) == [j \in 1..Len(YEARS) |-> IF j = i + 1 THEN v ELSE Num(0)]

OtherDirectInputs ==
    {makeZeros, Flat(Blank), OnlyAt(2, Num(-5)),
     <<Num(0), Num(-5), Num(0), Num(5), Num(0), Num(0)>>}
    \cup {OnlyAt(Len(YEARS) - 1, Num(5))}

FuelLineInputs ==
    {<<ItemLine("Coal", makeZeros)>>,
     <<ItemLine("Coal", Flat(Num(-2)))>>,
     <<ItemLine("Coal", Flat(Num(3)))>>,
     <<ItemLine("Coal", Flat(Num(-2))),
       [ItemLine("Diesel", <<Num(0), Num(0), Num(0), Num(1), Num(1), Blank>>) EXCEPT !.id = 2]>>}

\* the draft's raw, transport, waste and electricity lines: untouched, one
\* category filled in, all four filled in
DefaultMix ==
    [raw |-> <<ItemLine("Clinker", makeZeros)>>, trans |-> <<ItemLine("Truck", makeZeros)>>,
     waste |-> <<ItemLine("Landfill", makeZeros)>>,
     elec |-> <<ElecLine("India", makeEmptyEf, makeZeros)>>]

FilledMix ==
    [raw |-> <<ItemLine("Clinker", Flat(Num(1)))>>,
     trans |-> <<ItemLine("Truck", Flat(Num(-10)))>>,
     waste |-> <<ItemLine("Landfill", Flat(Num(2)))>>,
     elec |-> <<ElecLine("Gujarat", [makeEmptyEf EXCEPT ![3] = Num(1)], Flat(Num(-4)))>>]

DriverMixes ==
    {DefaultMix, FilledMix} \cup {[DefaultMix EXCEPT ![c] = FilledMix[c]] : c \in DOMAIN FilledMix}

StackInputs ==
    {DefaultStack,
     [DefaultStack EXCEPT !["opex_cr"] = Flat(Num(2)), !["savings_cr"] = Flat(Num(1))]}

WizardCarbonPrices == {Num(0), Num(50)}

\* the wizard is open on a new measure and the user has filled in the template
InitWizard ==
    /\ InterpIdle
    /\ measures = <<>>
    /\ carbonPrice \in WizardCarbonPrices
    /\ mode = "capacity"
    /\ selectedSector = AllSectors
    /\ baselines = SampleBaselines
    /\ targetIntensityPct = Num(20)
    /\ CatalogsLoaded
    /\ wizardOpen = TRUE
    /\ editingMeasure = Null
    /\ applyCarbonPriceInSave = FALSE
    /\ adoption \in AdoptionInputs
    /\ otherDirectT \in OtherDirectInputs
    /\ fuelLines \in FuelLineInputs
    /\ \E mix \in DriverMixes :
         /\ rawLines = mix.raw
         /\ transLines = mix.trans
         /\ wasteLines = mix.waste
         /\ elecLines = mix.elec
    /\ stack \in StackInputs
    /\ FinanceIdle
    /\ FirmOpen
    /\ ScriptIdle

\* the checkbox "save the cost including the carbon price"
SetApplyCarbonPriceInSave ==
    /\ wizardOpen
    /\ applyCarbonPriceInSave' = ~applyCarbonPriceInSave
    /\ UNCHANGED <<appVars, interpVars, finVars, catVars, wizardOpen, editingMeasure, adoption,
                   otherDirectT, fuelLines, rawLines, transLines, wasteLines, elecLines, stack,
                   firmVars, scriptVars>>
    /\ PersistEffect

\* saveTemplate and, through onSave, saveWizard. With a
\* representative abatement of 0 or less the user is asked first and may
\* decline, which leaves everything as it is. The fields of the wizard are
\* not read again once it is closed.
SaveTemplateOf(obj) ==
    \/ /\ jsLe(obj.abatement_tco2, Num(0))
       /\ UNCHANGED vars
    \/ /\ measures' = saveWizard(measures, obj)
       /\ wizardOpen' = FALSE
       /\ editingMeasure' = Null
       /\ UNCHANGED <<carbonPrice, mode, selectedSector, baselines, targetIntensityPct,
                      interpVars, finVars, catVars, adoption, otherDirectT, fuelLines, rawLines,
                      transLines, wasteLines, elecLines, stack, applyCarbonPriceInSave, firmVars, scriptVars>>
       /\ PersistEffect

\* the measure under edit has an id, so that saveWizard updates it
EditsById == IF editingMeasure = Null THEN FALSE ELSE editingMeasure.id # 0

SaveTemplate ==
    /\ wizardOpen
    /\ EditsById \/ Len(measures) < MaxMeasures
    /\ SaveTemplateOf(TemplateMeasure(computed))

NextWizard ==
    \/ SetApplyCarbonPriceInSave
    \/ SaveTemplate
    \/ EditAbatement({Num(30)})
    \/ EditCost

SpecWizard == InitWizard /\ [][NextWizard]_vars

-----------------------------------------------------------------------------
(* The engine on drafts with overrides, drift, financing and free-text cells *)

\* adoption as a prefilled draft may hold it: fractions outside [0, 1], and
\* the NaN that typing a text into an adoption cell stores
MixedAdoption == <<Num(-1), Num(0), Rat(1, 2), Num(1), Num(2), NaN>>

EngineAdoptions == {FullAdoption, MixedAdoption}

\* the cells of the other direct reduction row keep what was typed
EngineOtherDirect == {makeZeros, Flat(NumStr(5)), OnlyAt(2, Text)}

\* the five line lists of a draft: untouched; with overrides of 0, a key the
\* catalog does not have, per-year EF overrides and a drift of -100 %; with
\* a drift of +100 %
UntouchedLines ==
    [fuel |-> <<ItemLine("Coal", makeZeros)>>, raw |-> DefaultMix.raw, trans |-> DefaultMix.trans,
     waste |-> DefaultMix.waste, elec |-> DefaultMix.elec]

OverrideLines ==
    [fuel |-> <<[ItemLine("Coal", Flat(Num(-2))) EXCEPT
                    !.priceOv = Num(0), !.efEscPctYr = Num(-100)]>>,
     raw |-> <<[ItemLine("Clinker", Flat(Num(1))) EXCEPT
                    !.efOv = Num(0), !.priceEscPctYr = Num(-100)]>>,
     trans |-> <<ItemLine("Barge", Flat(Num(3)))>>,
     waste |-> <<ItemLine("Landfill", Flat(Num(2))),
                 [ItemLine("Landfill", Flat(Num(1))) EXCEPT !.id = 2, !.efOv = Num(4)]>>,
     elec |-> <<[ElecLine("Gujarat", <<Blank, Num(0), NumStr(1), Null, Blank, Blank>>,
                          <<Num(-4), Num(-4), Num(-4), Num(-4), Num(0), Num(0)>>) EXCEPT
                    !.efEscPctYr = Num(100)]>>]

RisingDriftLines ==
    [fuel |-> <<[ItemLine("Coal", <<Num(1), Num(1), Num(0), Num(0), Num(0), Num(0)>>) EXCEPT
                    !.priceOv = Num(1), !.priceEscPctYr = Num(100), !.efEscPctYr = Num(100)]>>,
     raw |-> DefaultMix.raw, trans |-> DefaultMix.trans, waste |-> DefaultMix.waste,
     elec |-> <<[ElecLine("India", makeEmptyEf,
                          <<Num(2), Num(1), Num(0), Num(0), Num(0), Num(0)>>) EXCEPT
                    !.efEscPctYr = Num(100), !.priceOv = Num(0)]>>]

\* a text typed into an EF override cell of the electricity line
TextOverrideLines ==
    [UntouchedLines EXCEPT
        !.elec = <<ElecLine("India", [makeEmptyEf EXCEPT ![2] = Text], Flat(Num(1)))>>]

EngineLines == {UntouchedLines, OverrideLines, RisingDriftLines, TextOverrideLines}

\* the cost stack: untouched; recurring costs; a financed capex at 0 %
\* interest over 5 years; one at 10 % over 2 years with an upfront part; a
\* text typed into an opex cell
EngineStacks ==
    {DefaultStack,
     [DefaultStack EXCEPT !["opex_cr"] = Flat(NumStr(2)), !["savings_cr"] = Flat(Num(1))],
     [DefaultStack EXCEPT !["capex_financed_cr"] = Flat(Num(10)),
                          !["interest_rate_pct"] = Flat(Num(0)),
                          !["financing_tenure_years"] = Flat(Num(5))],
     [DefaultStack EXCEPT !["capex_financed_cr"] = Flat(Rat(21, 100)),
                          !["interest_rate_pct"] = Flat(Num(10)),
                          !["financing_tenure_years"] = Flat(Num(2)),
                          !["capex_upfront_cr"] = [makeZeros EXCEPT ![1] = Num(4)]],
     [DefaultStack EXCEPT !["opex_cr"] = OnlyAt(2, Text)]}

\* the wizard is open on a draft
InitEngine ==
    /\ InterpIdle
    /\ measures = <<>>
    /\ carbonPrice \in WizardCarbonPrices
    /\ mode = "capacity"
    /\ selectedSector = AllSectors
    /\ baselines = SampleBaselines
    /\ targetIntensityPct = Num(20)
    /\ CatalogsLoaded
    /\ wizardOpen = TRUE
    /\ editingMeasure = Null
    /\ applyCarbonPriceInSave = FALSE
    /\ adoption \in EngineAdoptions
    /\ otherDirectT \in EngineOtherDirect
    /\ \E ls \in EngineLines :
         /\ fuelLines = ls.fuel
         /\ rawLines = ls.raw
         /\ transLines = ls.trans
         /\ wasteLines = ls.waste
         /\ elecLines = ls.elec
    /\ stack \in EngineStacks
    /\ FinanceIdle
    /\ FirmOpen
    /\ ScriptIdle

SpecEngine == InitEngine /\ [][NextWizard]_vars

-----------------------------------------------------------------------------
(* Editing a saved template measure in the wizard *)

\* withIds(d.drivers.fuel_lines, build) and its raw, transport and waste
\* counterparts; a stored line always has a name and a delta array
PrefillItemLines(arr) ==
    [i \in 1..Len(arr) |->
        [id |-> i, name |-> arr[i].name,
         priceOv |-> Coalesce(arr[i].priceOv, Null), efOv |-> Coalesce(arr[i].efOv, Null),
         priceEscPctYr |-> Coalesce(arr[i].priceEscPctYr, Num(0)),
         efEscPctYr |-> Coalesce(arr[i].efEscPctYr, Num(0)),
         delta |-> arr[i].delta]]

\* withIds(d.drivers.electricity_lines, build)
PrefillElecLines(arr) ==
    [i \in 1..Len(arr) |->
        [id |-> i, state |-> arr[i].state,
         priceOv |-> Coalesce(arr[i].priceOv, Null),
         priceEscPctYr |-> Coalesce(arr[i].priceEscPctYr, Num(0)),
         efEscPctYr |-> Coalesce(arr[i].efEscPctYr, Num(0)),
         efOvPerYear |-> arr[i].efOvPerYear, deltaMWh |-> arr[i].deltaMWh]]

\* the prefill effect for details d of mode "template_db_multiline"
Prefill(d) ==
    /\ adoption' = d.adoption
    /\ fuelLines' = PrefillItemLines(d.drivers.fuel_lines)
    /\ rawLines' = PrefillItemLines(d.drivers.raw_lines)
    /\ transLines' = PrefillItemLines(d.drivers.transport_lines)
    /\ wasteLines' = PrefillItemLines(d.drivers.waste_lines)
    /\ elecLines' = PrefillElecLines(d.drivers.electricity_lines)
    /\ otherDirectT' = d.drivers.other_direct_t
    /\ stack' = d.stack
    /\ applyCarbonPriceInSave' = Truthy(d.saved_cost_includes_carbon_price)

\* the Edit button of a row of the measures table, for a measure saved from
\* the template tab: setEditingMeasure(m), setWizardOpen(true), and the
\* prefill effect of the wizard that mounts
OpenForEdit ==
    /\ ~wizardOpen
    /\ \E k \in 1..Len(measures) :
         /\ IsTemplate(measures[k])
         /\ editingMeasure' = measures[k]
         /\ Prefill(measures[k].details)
    /\ wizardOpen' = TRUE
    /\ UNCHANGED <<appVars, interpVars, finVars, catVars, firmVars, scriptVars>>
    /\ PersistEffect

\* the wizard is open on a draft with a positive abatement
InitEdit ==
    /\ InitEngine
    /\ adoption = MixedAdoption
    /\ otherDirectT = Flat(NumStr(5))
    /\ fuelLines = OverrideLines.fuel
    /\ stack = [DefaultStack EXCEPT !["opex_cr"] = Flat(NumStr(2)),
                                    !["savings_cr"] = Flat(Num(1))]

NextEdit ==
    \/ SetApplyCarbonPriceInSave
    \/ SaveTemplate
    \/ ToggleSelected
    \/ OpenForEdit
    \/ UseFirm

SpecEdit == InitEdit /\ [][NextEdit]_vars

-----------------------------------------------------------------------------
(* Specification of the firms of the app and their measures *)

\* the default firm is initialised from the sample data; firms are created,
\* used, renamed and deleted, and the active firm's measures are cleared
\* and a measure is saved into the cleared list
NextFirms ==
    \/ FetchDataFrom({WellFormedSample})
    \/ CreateFirm
    \/ SwitchFirm
    \/ UseFirm
    \/ RenameFirm
    \/ DeleteFirm
    \/ ClearAll
    \/ (/\ dataLoaded
        /\ measures = <<>>
        /\ SaveQuickNew({Num(30)}, {Num(100)}, {"Power"}))

SpecFirms == InitFirstLaunch /\ [][NextFirms]_vars

-----------------------------------------------------------------------------
(* Specification of the ids of the active firm's measures *)

MaxIdMeasures == 2

\* the largest id a new measure is given
MaxMeasureId == 3

\* Number(v) || 0
NumberOrZero(v) == IF ToNumber(v) = NaN THEN Num(0) ELSE ToNumber(v)

\* the Edit button of a row that was not saved from the template tab:
\* setEditingMeasure(m), setWizardOpen(true); the prefill effect fills the
\* Quick tab from the row
OpenQuickEdit ==
    /\ dataLoaded
    /\ ~wizardOpen
    /\ \E k \in 1..Len(measures) :
         /\ ~IsTemplate(measures[k])
         /\ editingMeasure' = measures[k]
    /\ wizardOpen' = TRUE
    /\ UNCHANGED <<adoption, otherDirectT, fuelLines, rawLines, transLines, wasteLines,
                   elecLines, stack, applyCarbonPriceInSave>>
    /\ UNCHANGED <<appVars, interpVars, finVars, catVars, firmVars, scriptVars>>
    /\ PersistEffect

\* saveQuick through saveWizard for the row under edit, with the prefilled
\* fields and the cost as prefilled or retyped
SaveQuickEdit(costs) ==
    /\ wizardOpen
    /\ editingMeasure # Null
    /\ EditsById \/ Len(measures) < MaxMeasures
    /\ \E c \in {editingMeasure.cost_per_tco2} \cup costs :
         measures' = saveWizard(measures,
                        [id |-> editingMeasure.id, sector |-> editingMeasure.sector,
                         abatement_tco2 |-> NumberOrZero(editingMeasure.abatement_tco2),
                         cost_per_tco2 |-> NumberOrZero(c),
                         selected |-> editingMeasure.selected, details |-> QuickDetails])
    /\ wizardOpen' = FALSE
    /\ editingMeasure' = Null
    /\ UNCHANGED <<adoption, otherDirectT, fuelLines, rawLines, transLines, wasteLines,
                   elecLines, stack, applyCarbonPriceInSave>>
    /\ UNCHANGED <<carbonPrice, mode, selectedSector, baselines, targetIntensityPct,
                   interpVars, finVars, catVars, firmVars, scriptVars>>
    /\ PersistEffect

\* the measures of the active firm are created and updated in the wizard,
\* imported from CSV, edited in the table, deleted, cleared, loaded from the
\* firm's items and imported from a firm JSON file
NextIds ==
    \/ FetchDataFrom({WellFormedSample})
    \/ (/\ dataLoaded /\ ~wizardOpen
        /\ Len(measures) < MaxIdMeasures
        /\ SaveQuickNew({Num(10)}, {Num(50)}, {"Power"}))
    \/ OpenQuickEdit
    \/ SaveQuickEdit({Num(100)})
    \/ (/\ dataLoaded /\ ~wizardOpen
        /\ Len(measures) < MaxIdMeasures
        /\ MaxId(measures) < MaxMeasureId
        /\ ImportRow({Num(10)}, {Num(50)}, {QuickDetails}))
    \/ (dataLoaded /\ ~wizardOpen /\ ToggleSelected)
    \/ DeleteMeasure
    \/ ClearAll
    \/ UseFirm
    \/ ImportFirmJson

SpecIds == InitFirstLaunch /\ [][NextIds]_vars

-----------------------------------------------------------------------------
(* Specification of the engine memo with its finance summary *)

MaxRuns == 2

\* values of meta.discount_rate: 0 (read as 0.10), 10 % and -100 %
DiscountRates == {Num(0), Rat(1, 10), Num(-1)}

\* drafts whose cash flows are zero in every year, or not a number in some
\* year, or non-zero in the base year only, or of one sign
SummaryStacks ==
    {DefaultStack,
     [DefaultStack EXCEPT !["capex_upfront_cr"] = OnlyAt(0, Rat(1, 1000))],
     [DefaultStack EXCEPT !["opex_cr"] = OnlyAt(2, Text)]}

SummaryDrafts ==
    {[adoption |-> a, otherDirectT |-> makeZeros, stack |-> st] :
        a \in {DefaultAdoption, FullAdoption, MixedAdoption}, st \in SummaryStacks}
    \cup {[adoption |-> a, otherDirectT |-> OnlyAt(1, Num(5)), stack |-> DefaultStack] :
             a \in {DefaultAdoption, FullAdoption, MixedAdoption}}

\* the engine of a mounted wizard; runs counts the computations made
EngineCall(discount_rate, runs) ==
    [fn |-> "computed", discount_rate |-> discount_rate, runs |-> runs]

\* the wizard is open on a draft with untouched lines and nothing computed yet
InitSummary ==
    /\ InterpIdle
    /\ measures = <<>>
    /\ carbonPrice \in WizardCarbonPrices
    /\ mode = "capacity"
    /\ selectedSector = AllSectors
    /\ baselines = SampleBaselines
    /\ targetIntensityPct = Num(20)
    /\ CatalogsLoaded
    /\ wizardOpen = TRUE
    /\ editingMeasure = Null
    /\ applyCarbonPriceInSave = FALSE
    /\ fuelLines = DefaultItemLines(resolvedCatalogs["fuels"])
    /\ rawLines = DefaultItemLines(resolvedCatalogs["raw"])
    /\ transLines = DefaultItemLines(resolvedCatalogs["transport"])
    /\ wasteLines = DefaultItemLines(resolvedCatalogs["waste"])
    /\ elecLines = DefaultElecLines(resolvedCatalogs["electricity"])
    /\ \E dr \in SummaryDrafts :
         /\ adoption = dr.adoption
         /\ otherDirectT = dr.otherDirectT
         /\ stack = dr.stack
    /\ finArgs \in {EngineCall(r, 0) : r \in DiscountRates}
    /\ finRet = NotReturned
    /\ FirmOpen
    /\ ScriptIdle

\* Recompute that writes the clamped adoption shares back into the draft
RecomputeClampingInPlace ==
    /\ wizardOpen
    /\ finArgs.fn = "computed"
    /\ finArgs.runs < MaxRuns
    /\ finRet' = ComputedWithFinance(computed, finArgs.discount_rate)
    /\ finArgs' = [finArgs EXCEPT !.runs = @ + 1]
    /\ adoption' = [j \in 1..Len(YEARS) |-> AdoptionAt(j - 1)]
    /\ UNCHANGED <<interpVars, appVars, catVars, wizardOpen, editingMeasure, otherDirectT,
                   fuelLines, rawLines, transLines, wasteLines, elecLines, stack,
                   applyCarbonPriceInSave, firmVars, scriptVars>>
    /\ PersistEffect

\* a render of the wizard runs the memo's callback on the current draft
Recompute ==
    /\ wizardOpen
    /\ finArgs.fn = "computed"
    /\ finArgs.runs < MaxRuns
    /\ finRet' = ComputedWithFinance(computed, finArgs.discount_rate)
    /\ finArgs' = [finArgs EXCEPT !.runs = @ + 1]
    /\ UNCHANGED <<interpVars, appVars, catVars, wizVars, firmVars, scriptVars>>
    /\ PersistEffect

\* the discount rate field: setMeta({ ...meta, discount_rate: Number(value) }),
\* after which the render computes the memo again
SetDiscountRate ==
    /\ wizardOpen
    /\ finArgs.fn = "computed"
    /\ finArgs.runs < MaxRuns
    /\ \E r \in DiscountRates :
         /\ finArgs' = [finArgs EXCEPT !.discount_rate = r, !.runs = @ + 1]
         /\ finRet' = ComputedWithFinance(computed, r)
    /\ UNCHANGED <<interpVars, appVars, catVars, wizVars, firmVars, scriptVars>>
    /\ PersistEffect

NextSummary == Recompute \/ SetDiscountRate

SpecSummary == InitSummary /\ [][NextSummary]_vars

-----------------------------------------------------------------------------
(* Specification of the finance helpers irr and annuityFactor *)

FlowValues == {Num(-2), Num(0), Num(1), NaN}

\* year lists with the cash flows that go with them
YearLists == {<<2025, 2026>>, <<2024, 2025, 2026>>}

IrrCalls ==
    {[fn |-> "irr", amounts |-> a, years |-> ys, maxIter |-> k, r |-> Null, n |-> Null] :
        a \in UNION {[1..Len(y) -> FlowValues] : y \in YearLists}, ys \in YearLists,
        k \in 0..MaxIter}

RateInputs ==
    {Num(0), Rat(1, 2000000000), Rat(-1, 2000000000), Rat(1, 10), Rat(-1, 2), Num(1), Num(-1),
     Num(-2), NumStr(7), NaN, Inf(1), Text, Blank}

TenureInputs == {Num(-1), Num(0), Num(1), Num(2), Num(3), NumStr(2), NaN, Inf(1), Text, Blank}

AnnuityCalls ==
    {[fn |-> "annuityFactor", amounts |-> <<>>, years |-> <<>>, maxIter |-> 0,
      r |-> rn[1], n |-> rn[2]] :
        rn \in (RateInputs \X TenureInputs)
                 \cup {<<Num(0), Num(10)>>, <<Rat(1, 2000000000), Num(10)>>}}

InitFinance ==
    /\ InterpIdle
    /\ AppStart
    /\ CatalogsLoaded
    /\ WizardClosed
    /\ finArgs \in {c \in IrrCalls : Len(c.amounts) = Len(c.years)} \cup AnnuityCalls
    /\ finRet = NotReturned
    /\ FirmOpen
    /\ ScriptIdle

\* irr(flows, years, BASE_YEAR) with the default bounds and tolerance
CallIrr ==
    /\ finArgs.fn = "irr"
    /\ finRet = NotReturned
    /\ finRet' = irr(finArgs.amounts, finArgs.years, BASE_YEAR, GuessLow, GuessHigh, Tol,
                     finArgs.maxIter)
    /\ UNCHANGED <<finArgs, interpVars, appVars, catVars, wizVars, firmVars, scriptVars>>
    /\ PersistEffect

CallAnnuityFactor ==
    /\ finArgs.fn = "annuityFactor"
    /\ finRet = NotReturned
    /\ finRet' = annuityFactor(finArgs.r, finArgs.n)
    /\ UNCHANGED <<finArgs, interpVars, appVars, catVars, wizVars, firmVars, scriptVars>>
    /\ PersistEffect

NextFinance == CallIrr \/ CallAnnuityFactor

SpecFinance == InitFinance /\ [][NextFinance]_vars

-----------------------------------------------------------------------------
(* Specification of irr, one loop iteration per step *)

BisectFlowValues == {Num(-10), Num(-2), Num(0), Num(1), Num(4)}

\* calls of irr that run the whole loop, of MaxIter iterations
BisectCalls ==
    {[fn |-> "irrLoop", amounts |-> a, years |-> ys, maxIter |-> MaxIter, r |-> Null, n |-> Null] :
        a \in UNION {[1..Len(y) -> BisectFlowValues] : y \in YearLists}, ys \in YearLists}

\* the locals of irr at the top of the loop, before iteration it
IrrFrame(lo, hi, fLo, fHi, it) ==
    [t |-> "loop", lo |-> lo, hi |-> hi, fLo |-> fLo, fHi |-> fHi, it |-> it]

\* irr has returned value; lo, hi and it are the locals at the return
IrrReturn(value, lo, hi, it) ==
    [t |-> "return", value |-> value, lo |-> lo, hi |-> hi, it |-> it]

\* let fLo = f(lo), fHi = f(hi) and the two early returns
IrrEntered(lo, hi, fLo, fHi) ==
    IF fLo.t = "nan" \/ fHi.t = "nan" THEN IrrReturn(Null, lo, hi, 0)
    ELSE IF jsGt(jsMul(fLo, fHi), Num(0)) THEN IrrReturn(Null, lo, hi, 0)
    ELSE IrrFrame(lo, hi, fLo, fHi, 0)

\* one pass through the loop body with mid and fMid known
IrrIterated(fr, tol, mid, fMid) ==
    IF jsLt(jsAbs(fMid), tol) THEN IrrReturn(mid, fr.lo, fr.hi, fr.it)
    ELSE IF jsLt(jsMul(fr.fLo, fMid), Num(0)) THEN IrrFrame(fr.lo, mid, fr.fLo, fMid, fr.it + 1)
    ELSE IrrFrame(mid, fr.hi, fMid, fr.fHi, fr.it + 1)

Midpoint(lo, hi) == jsDiv(jsAdd(lo, hi), Num(2))

InitBisect ==
    /\ InterpIdle
    /\ AppStart
    /\ CatalogsLoaded
    /\ WizardClosed
    /\ finArgs \in {c \in BisectCalls : Len(c.amounts) = Len(c.years)}
    /\ finRet = NotReturned
    /\ FirmOpen
    /\ ScriptIdle

\* irr up to the top of the loop
IrrEnter ==
    /\ finArgs.fn = "irrLoop"
    /\ finRet = NotReturned
    /\ finRet' = IrrEntered(GuessLow, GuessHigh,
                            npv(GuessLow, finArgs.amounts, finArgs.years, BASE_YEAR),
                            npv(GuessHigh, finArgs.amounts, finArgs.years, BASE_YEAR))
    /\ UNCHANGED <<finArgs, interpVars, appVars, catVars, wizVars, firmVars, scriptVars>>
    /\ PersistEffect

\* one iteration: it < maxIter holds
IrrIterate ==
    /\ finArgs.fn = "irrLoop"
    /\ finRet.t = "loop"
    /\ finRet.it < finArgs.maxIter
    /\ finRet' = IrrIterated(finRet, Tol, Midpoint(finRet.lo, finRet.hi),
                             npv(Midpoint(finRet.lo, finRet.hi), finArgs.amounts,
                                 finArgs.years, BASE_YEAR))
    /\ UNCHANGED <<finArgs, interpVars, appVars, catVars, wizVars, firmVars, scriptVars>>
    /\ PersistEffect

\* the loop is over: return (lo + hi) / 2
IrrExhaust ==
    /\ finArgs.fn = "irrLoop"
    /\ finRet.t = "loop"
    /\ finRet.it >= finArgs.maxIter
    /\ finRet' = IrrReturn(Midpoint(finRet.lo, finRet.hi), finRet.lo, finRet.hi, finRet.it)
    /\ UNCHANGED <<finArgs, interpVars, appVars, catVars, wizVars, firmVars, scriptVars>>
    /\ PersistEffect

NextBisect == IrrEnter \/ IrrIterate \/ IrrExhaust

SpecBisect == InitBisect /\ [][NextBisect]_vars

-----------------------------------------------------------------------------
(* Specification of quadraticFit calls *)

MaxPoints == 3

\* x values: whole numbers in lists of up to MaxPoints points, and steps of
\* 1/128 in lists of two or three points
WholeXs == {Num(0), Num(1), Num(2), Num(3)}
FineXs == {Num(0), Rat(1, 128), Rat(1, 64)}

\* coefficients a, b, c of the curves the points are taken from
FitCoefficients == {<<Num(2), Num(3), Num(-1)>>, <<Num(5), Num(0), Num(0)>>,
                    <<Num(0), Num(1), Num(0)>>}

PointsOn(coef, xs) == [i \in 1..Len(xs) |-> Yhat(coef[1], coef[2], coef[3], xs[i])]

FitCalls ==
    {[fn |-> "quadraticFit", xs |-> xs, ys |-> PointsOn(coef, xs), coef |-> coef] :
        xs \in UNION ({[1..k -> WholeXs] : k \in 2..MaxPoints}
                        \cup {[1..k -> FineXs] : k \in 2..3}),
        coef \in FitCoefficients}

InitFit ==
    /\ InterpIdle
    /\ AppStart
    /\ CatalogsLoaded
    /\ WizardClosed
    /\ finArgs \in FitCalls
    /\ finRet = NotReturned
    /\ FirmOpen
    /\ ScriptIdle

\* const { a, b, c, r2 } = quadraticFit(xs, ys)
CallQuadraticFit ==
    /\ finArgs.fn = "quadraticFit"
    /\ finRet = NotReturned
    /\ finRet' = quadraticFit(finArgs.xs, finArgs.ys)
    /\ UNCHANGED <<finArgs, interpVars, appVars, catVars, wizVars, firmVars, scriptVars>>
    /\ PersistEffect

NextFit == CallQuadraticFit

SpecFit == InitFit /\ [][NextFit]_vars

-----------------------------------------------------------------------------
(* apply_text_fixes: the text-fix script *)

\* the find and replace pairs in the order of the script; a character
\* outside ASCII is written {U+hhhh} with its code point
replacements == <<
    [find |-> "India CCTS {U+2013} Marginal Abatement Cost Curve (MACC) Builder",
     replace |-> "India CCTS {U+2014} Marginal Abatement Cost Curve (MACC) Builder"],
    [find |-> "Use sample data or bring your own catalogs, then build your firm{U+2019}s MACC.",
     replace |-> "Load sample data or your own catalogs to build your firm's MACC."],
    [find |-> "Wizard data:",
     replace |-> "Data source:"],
    [find |-> "Wizard data",
     replace |-> "Data source"],
    [find |-> "Capacity-based",
     replace |-> "Capacity"],
    [find |-> "Intensity-based",
     replace |-> "Intensity"],
    [find |-> "Capacity: cumulative tCO{U+2082}; Intensity: cumulative % reduction vs baseline.",
     replace |-> "Capacity: cumulative tCO{U+2082}. Intensity: cumulative % reduction vs. baseline."],
    [find |-> "Continuous (coloured)",
     replace |-> "Step (stacked)"],
    [find |-> "Costs in MACC reflect <b>saved cost {U+2212} carbon price</b> (delta-adjusted if cost already included CP).",
     replace |-> "MACC costs reflect <b>savings {U+2212} carbon price</b>. If a measure already included a carbon price, only the difference from the current carbon price is subtracted."],
    [find |-> "Driver & EF Catalogs (Fuels / Raw / Transport / Waste / Electricity)",
     replace |-> "Catalogs {U+2014} Drivers & EFs (Fuels, Raw, Transport, Waste, Electricity)"],
    [find |-> "Firm Catalogs {U+2014} Drivers & EFs",
     replace |-> "Catalogs {U+2014} Drivers & emission factors"],
    [find |-> "+ Add Row",
     replace |-> "+ Add row"],
    [find |-> "Reset to Sample",
     replace |-> "Reset to sample"],
    [find |-> "Start Blank",
     replace |-> "Start blank"],
    [find |-> "CSV columns expected:",
     replace |-> "CSV columns:"],
    [find |-> "state, price_per_mwh_inr, ef_tco2_per_mwh (aliases accepted: price_per_mwh | price; ef_t_per_mwh | ef_t)",
     replace |-> "state, price_per_mwh_inr, ef_tco2_per_mwh (aliases: price_per_mwh | price; ef_t_per_mwh | ef_t)"],
    [find |-> "name, unit, price_per_unit_inr, ef_tco2_per_unit (aliases accepted: price_per_unit | price; ef_t_per_unit | ef_t)",
     replace |-> "name, unit, price_per_unit_inr, ef_tco2_per_unit (aliases: price_per_unit | price; ef_t_per_unit | ef_t)"],
    [find |-> "Your Firms",
     replace |-> "Firms"],
    [find |-> "Create New Firm",
     replace |-> "Create new firm"],
    [find |-> "Create Firm",
     replace |-> "Create firm"],
    [find |-> "Export / Import",
     replace |-> "Export / import"],
    [find |-> "Export Active Firm (.json)",
     replace |-> "Export active firm (.json)"],
    [find |-> "Template (DB-aware)",
     replace |-> "Template (catalog-aware)"],
    [find |-> "Use in MACC",
     replace |-> "Include in MACC"],
    [find |-> "Project Metadata",
     replace |-> "Project details"],
    [find |-> "Adoption profile (fraction 0{U+2013}1)",
     replace |-> "Adoption profile (0{U+2013}1)"],
    [find |-> "Adoption fraction",
     replace |-> "Adoption"],
    [find |-> "Share of total potential adopted in each year. 0=no adoption, 1=full adoption. Multiplies all {U+0394} quantities for that year.",
     replace |-> "Share of total potential adopted in each year (0 = none, 1 = full). Applied to all {U+0394} quantities that year."],
    [find |-> "Applied multiplicatively to all {U+0394} quantities (fuel/raw/transport/waste/electricity/other).",
     replace |-> "Applied to all {U+0394} quantities (fuel/raw/transport/waste/electricity/other)."],
    [find |-> "Driver & Emissions Lines",
     replace |-> "Drivers & Emissions"],
    [find |-> "EF override (blank = use state/EF drift)",
     replace |-> "EF override (blank uses state/EF drift)"],
    [find |-> "Leave blank to use the catalog price for this item. If filled, this replaces the catalog price in the base year; annual Price drift then applies on top.",
     replace |-> "Leave blank to use the catalog value. If set, this overrides the base{U+2011}year value; annual drift applies afterward."],
    [find |-> "Leave blank to use the catalog emission factor (EF). If filled, this replaces EF in the base year; EF drift then applies on top.",
     replace |-> "Leave blank to use the catalog EF. If set, this overrides the base{U+2011}year EF; EF drift applies afterward."],
    [find |-> "Water & waste lines",
     replace |-> "Water and waste lines"],
    [find |-> "{U+0394}Water/waste quantity",
     replace |-> "{U+0394}Water and waste quantity"],
    [find |-> "Other direct emissions reduction (optional)",
     replace |-> "Other direct reductions (optional)"],
    [find |-> "Direct reductions not captured by the lines above (e.g., process changes, fugitives). Positive = reduction; negative = increase.",
     replace |-> "Direct reductions not captured above (e.g., process changes, fugitives). Positive reduces emissions; negative increases."],
    [find |-> "Cost stack & financing ({U+20B9} cr)",
     replace |-> "Cost stack and financing ({U+20B9} cr)"],
    [find |-> "Recurring operating costs (positive adds cost, negative reduces cost). Applied to each year.",
     replace |-> "Recurring operating costs (positive adds cost; negative is savings). Applied each year."],
    [find |-> "Recurring operating savings (positive lowers net cost). Applied to each year.",
     replace |-> "Recurring operating savings (positive). Applied each year."],
    [find |-> "Portion of capex to be financed and converted to a yearly annuity using Interest rate and Tenure.",
     replace |-> "Portion of capex to be financed and converted to a yearly annuity using the interest rate and tenure."],
    [find |-> "Rep. cost (w/o CP)",
     replace |-> "Rep. cost (without CP)"],
    [find |-> "Rep. cost (with CP =",
     replace |-> "Rep. cost (with carbon price ="],
    [find |-> "NPV (w/o CP)",
     replace |-> "NPV (without CP)"],
    [find |-> "IRR (w/o CP)",
     replace |-> "IRR (without CP)"],
    [find |-> "w/o CP:",
     replace |-> "without CP:"],
    [find |-> "Target & Budget (greedy stack)",
     replace |-> "Target & budget"],
    [find |-> "In <b>Intensity</b> mode, % refers to share of baseline emissions per <b>",
     replace |-> "In <b>Intensity</b> mode, % is the share of baseline emissions per <b>"],
    [find |-> "Budget required ({U+03A3} cost{U+00D7}tCO{U+2082}):",
     replace |-> "Budget required ({U+2211} cost {U+00D7} tCO{U+2082}):"],
    [find |-> "Costs reflect <b>saved cost {U+2212} carbon price</b>. If a measure was saved {U+201C}including carbon price{U+201D}, the chart subtracts only the <i>difference</i> between the current and saved carbon price.",
     replace |-> "Costs reflect <b>savings {U+2212} carbon price</b>. If a measure was saved {U+201C}including carbon price,{U+201D} the chart subtracts only the difference from the current carbon price."],
    [find |-> "Marginal cost (input) (",
     replace |-> "Input marginal cost ("],
    [find |-> "View timeseries",
     replace |-> "View time series"],
    [find |-> "CSV columns: <code>id, name, sector, abatement_tco2, cost_per_tco2, selected, details</code>. If <code>details.saved_cost_includes_carbon_price=true</code>, the chart subtracts only the <i>delta</i> between the current carbon price and <code>details.carbon_price_at_save</code>.",
     replace |-> "CSV columns: <code>id, name, sector, abatement_tco2, cost_per_tco2, selected, details</code>. If <code>details.saved_cost_includes_carbon_price = true</code>, the chart subtracts only the difference between the current carbon price and <code>details.carbon_price_at_save</code>."],
    [find |-> "Measure timeseries {U+2014}",
     replace |-> "Time series {U+2014}"],
    [find |-> "Wizard uses the selected <b>catalog source</b> (Sample / Custom / Merged). In Merged mode, custom entries override sample by <code>name</code> (or <code>state</code> for electricity).",
     replace |-> "Wizard uses the selected data source (Sample / Custom / Merged). In Merged mode, custom entries override sample values by <code>name</code> (or <code>state</code> for electricity)."],
    [find |-> "Continuous MACC uses coloured rectangles (width = potential, height = cost {U+2212} carbon price or delta{U+2011}adjusted if already applied).",
     replace |-> "The step MACC uses colored rectangles (width = potential; height = cost {U+2212} carbon price, adjusted if already included)."],
    [find |-> "Built for India CCTS exploration {U+2014} sample DB + your custom data, all in one app.",
     replace |-> "Built for India CCTS{U+2014}works with sample and custom data."]
>>

\* countOccurrences: the loop from index idx on (indices count from 1)
RECURSIVE countFrom(_, _, _)
countFrom(haystack, needle, idx) ==
    IF idx + Len(needle) - 1 > Len(haystack) THEN 0
    ELSE IF SubSeq(haystack, idx, idx + Len(needle) - 1) = needle
         THEN 1 + countFrom(haystack, needle, idx + Len(needle))
         ELSE countFrom(haystack, needle, idx + 1)

countOccurrences(haystack, needle) ==
    IF needle = "" \/ haystack = "" THEN 0 ELSE countFrom(haystack, needle, 1)

\* updated.split(find).join(replace) for a find that is not empty: the
\* occurrences are taken from the left and do not overlap
RECURSIVE SplitJoinFrom(_, _, _, _)
SplitJoinFrom(text, find, replace, idx) ==
    IF idx + Len(find) - 1 > Len(text) THEN SubSeq(text, idx, Len(text))
    ELSE IF SubSeq(text, idx, idx + Len(find) - 1) = find
         THEN replace \o SplitJoinFrom(text, find, replace, idx + Len(find))
         ELSE SubSeq(text, idx, idx) \o SplitJoinFrom(text, find, replace, idx + 1)

SplitJoin(text, find, replace) == SplitJoinFrom(text, find, replace, 1)

\* one pass of the loop over replacements, with hits already counted
RECURSIVE ApplyFrom(_, _, _)
ApplyPair(updated, report, k, hits) ==
    IF hits > 0
    THEN ApplyFrom(SplitJoin(updated, replacements[k].find, replacements[k].replace),
                   Append(report, [find |-> replacements[k].find,
                                   replace |-> replacements[k].replace, hits |-> hits]),
                   k + 1)
    ELSE ApplyFrom(updated, report, k + 1)

\* the loop over replacements from pair k on: the text and the report
ApplyFrom(updated, report, k) ==
    IF k > Len(replacements) THEN [updated |-> updated, report |-> report]
    ELSE ApplyPair(updated, report, k, countOccurrences(updated, replacements[k].find))

ApplyReplacements(text) == ApplyFrom(text, <<>>, 1)

\* report.reduce((s, r) => s + r.hits, 0)
RECURSIVE TotalHits(_)
TotalHits(report) ==
    IF report = <<>> THEN 0 ELSE report[1].hits + TotalHits(Tail(report))

\* what a run leaves behind: the log entry, the target file and the backups
RunOutcome(dryRun, res) ==
    /\ runLog' = Append(runLog, [dryRun |-> dryRun, distinct |-> Len(res.report),
                                 total |-> TotalHits(res.report),
                                 wrote |-> ~dryRun /\ res.updated # fileText])
    /\ IF dryRun \/ res.updated = fileText
       THEN UNCHANGED <<fileText, backups>>
       ELSE /\ backups' = Append(backups, fileText)
            /\ fileText' = res.updated

-----------------------------------------------------------------------------
(* Specification of runs of the text-fix script on one file *)

MaxPieces == 2

MaxScriptRuns == 3

\* pieces of user-visible text: find strings of the list and text around them
Pieces ==
    {"Capacity-based", "-based", "Your Firms", "Your ", "Adoption fraction", " fraction",
     "Wizard data:", "Wizard data", "Create New Firm", "w/o CP:", "NPV (", "View timeseries"}

RECURSIVE TextsOf(_)
TextsOf(n) ==
    IF n = 0 THEN {""} ELSE {""} \cup {p \o t : p \in Pieces, t \in TextsOf(n - 1)}

InitScript ==
    /\ InterpIdle
    /\ AppStart
    /\ CatalogsLoaded
    /\ WizardClosed
    /\ FinanceIdle
    /\ FirmOpen
    /\ fileText \in TextsOf(MaxPieces)
    /\ backups = <<>>
    /\ runLog = <<>>

\* node apply_text_fixes.js <file> [--dry-run], for a file that can be
\* read and written
RunScript(dryRun) ==
    /\ Len(runLog) < MaxScriptRuns
    /\ RunOutcome(dryRun, ApplyReplacements(fileText))
    /\ UNCHANGED <<interpVars, appVars, catVars, wizVars, finVars, firmVars, localStorage>>

DryRun == RunScript(TRUE)

ApplyTextFixes == RunScript(FALSE)

NextScript == DryRun \/ ApplyTextFixes

SpecScript == InitScript /\ [][NextScript]_vars

-----------------------------------------------------------------------------
(* Claims about the measures list and the curve *)

\* C1: the segments of the curve are contiguous in both modes: the first
\* starts at 0, each next one starts where the previous one ends, the right
\* ends never decrease, and the reported total is the last right end, or 0
\* when there is no segment.
C1_CurveContiguity ==
    LET segs == segments
    IN  /\ \A k \in 1..Len(segs) :
              segs[k].x1_plot = IF k = 1 THEN Num(0) ELSE segs[k - 1].x2_plot
        /\ \A k \in 1..Len(segs) : jsLe(segs[k].x1_plot, segs[k].x2_plot)
        /\ \A k \in 1..(Len(segs) - 1) : jsLe(segs[k].x2_plot, segs[k + 1].x2_plot)
        /\ totalX = IF Len(segs) = 0 THEN Num(0) ELSE segs[Len(segs)].x2_plot

C1_Witness ==
    /\ mode = "intensity"
    /\ jsGt(ToNumber(ActiveEmissions), Num(0))
    /\ Len(segments) >= 2
    /\ Len(sorted) > Len(segments)
    /\ segments[2].x1_plot # Num(0)

\* C2: the ranked list is a permutation of the participating measures, no
\* measure comes after one with a strictly greater effective cost, measures
\* with equal effective cost keep their input order, and ranking the ranked
\* list again returns the same list.
C2_Ranking ==
    LET ranked == sorted
        input == filtered
    IN  /\ Len(ranked) = Len(input)
        /\ \E pi \in [1..Len(input) -> 1..Len(input)] :
              /\ \A i, j \in 1..Len(input) : i # j => pi[i] # pi[j]
              /\ \A j \in 1..Len(ranked) : ranked[j].m = input[pi[j]]
              /\ \A i \in 1..Len(ranked) : \A j \in (i + 1)..Len(ranked) :
                    ranked[i].effective_cost = ranked[j].effective_cost => pi[i] < pi[j]
        /\ \A i \in 1..Len(ranked) : \A j \in (i + 1)..Len(ranked) :
              jsLe(ranked[i].effective_cost, ranked[j].effective_cost)
        /\ RankOf([k \in 1..Len(ranked) |-> ranked[k].m], carbonPrice) = ranked

C2_Witness ==
    /\ Len(filtered) = 3
    /\ Len(measures) = 3
    /\ sorted[1].m = filtered[3]
    /\ sorted[2].effective_cost = sorted[3].effective_cost
    /\ sorted[2].m = filtered[1]

\* C3: the effective cost of a measure is its cost minus the rise of the carbon
\* price since the save when it was saved with the carbon price included, and
\* its cost minus the whole current carbon price otherwise; cost 100 saved with
\* the carbon price at 500 is -100 at 700, cost 100 saved without it is 50 at 50.
C3_CostNormalization ==
    /\ LET ranked == sorted IN \A k \in 1..Len(ranked) :
          LET m == ranked[k].m
          IN  ranked[k].effective_cost =
                IF m.details.saved_cost_includes_carbon_price = JsTrue
                THEN Num(m.cost_per_tco2.n - (carbonPrice.n - m.details.carbon_price_at_save.n))
                ELSE Num(m.cost_per_tco2.n - carbonPrice.n)
    /\ \A k \in 1..Len(measures) :
          LET m == measures[k]
          IN  /\ (/\ m.details.saved_cost_includes_carbon_price = JsTrue
                  /\ m.details.carbon_price_at_save = Num(500)
                  /\ m.cost_per_tco2 = Num(100)
                  /\ carbonPrice = Num(700)) => effective_cost(m, carbonPrice) = Num(-100)
              /\ (/\ m.details.saved_cost_includes_carbon_price # JsTrue
                  /\ m.cost_per_tco2 = Num(100)
                  /\ carbonPrice = Num(50)) => effective_cost(m, carbonPrice) = Num(50)

C3_Witness ==
    /\ carbonPrice = Num(700)
    /\ \E k \in 1..Len(sorted) :
          /\ sorted[k].m.details.saved_cost_includes_carbon_price = JsTrue
          /\ sorted[k].m.cost_per_tco2 = Num(100)
          /\ sorted[k].effective_cost = Num(-100)
    /\ \E k \in 1..Len(sorted) :
          /\ sorted[k].m.details.saved_cost_includes_carbon_price # JsTrue
          /\ sorted[k].effective_cost = Num(-600)

\* the abatement a ranked measure can contribute: its tons when positive
Contributes(x) ==
    LET A == ToNumber(OrZero(x.m.abatement_tco2))
    IN  IF IsFiniteNum(A) /\ jsGt(A, Num(0)) THEN A ELSE Num(0)

\* the maximum achievable across all ranked measures, in tons
RECURSIVE MaxAchievableFrom(_)
MaxAchievableFrom(k) ==
    IF k > Len(sorted) THEN Num(0) ELSE jsAdd(Contributes(sorted[k]), MaxAchievableFrom(k + 1))

\* the target in tons: baselineEmissions * p / 100
TargetTons == jsDiv(jsMul(ToNumber(OrZero(ActiveEmissions)), targetIntensityPct), Num(100))

\* the budget of the greedy walk towards need tons, from ranked measure k on
RECURSIVE GreedyBudgetFrom(_, _)
GreedyBudgetFrom(k, need) ==
    IF k > Len(sorted) THEN Num(0)
    ELSE LET taken == jsMin(need, Contributes(sorted[k]))
         IN  jsAdd(jsMul(taken, ToNumber(OrZero(sorted[k].effective_cost))),
                   GreedyBudgetFrom(k + 1, jsSub(need, taken)))

ReachedTons == jsMin(TargetTons, MaxAchievableFrom(1))

\* C9: the greedy walk takes abatement in ranked order up to the target,
\* budget is the sum of taken tons times effective cost, and the reached value
\* is min(target, maximum achievable), in tons in capacity mode and in percent
\* of baseline emissions in intensity mode.
C9_BudgetToTarget ==
    /\ budgetToTarget.budget = GreedyBudgetFrom(1, TargetTons)
    /\ budgetToTarget.targetReached =
          IF mode = "capacity" THEN ReachedTons
          ELSE IF jsGt(ToNumber(OrZero(ActiveEmissions)), Num(0))
               THEN jsDiv(jsMul(ReachedTons, Num(100)), ToNumber(OrZero(ActiveEmissions)))
               ELSE Num(0)

\* the same statement holds of the walk in capacity mode
C9_CapacityOnly == mode = "capacity" => C9_BudgetToTarget

\* a measure is selected and matches the active sector filter
InFilter(m) == m.selected /\ (selectedSector = AllSectors \/ m.sector = selectedSector)

\* its abatement is a finite, strictly positive number
HasPositiveAbatement(m) ==
    /\ IsFiniteNum(ToNumber(OrZero(m.abatement_tco2)))
    /\ jsGt(ToNumber(OrZero(m.abatement_tco2)), Num(0))

\* the tons of the first j entries of a ranked list
RECURSIVE TonsUpTo(_, _)
TonsUpTo(list, j) ==
    IF j = 0 THEN Num(0)
    ELSE jsAdd(TonsUpTo(list, j - 1), ToNumber(list[j].m.abatement_tco2))

\* tons on the x axis: the tons in capacity mode, the percentage of the
\* baseline emissions in intensity mode, 0 without positive baseline emissions
AxisValue(tons) ==
    IF mode = "capacity" THEN tons
    ELSE IF jsGt(ToNumber(OrZero(ActiveEmissions)), Num(0))
         THEN jsMul(jsDiv(tons, ToNumber(OrZero(ActiveEmissions))), Num(100))
         ELSE Num(0)

\* the segments are the entries of members, in that order, each as high as
\* its effective cost and as wide as its abatement
SegmentsAre(members) ==
    /\ Len(segments) = Len(members)
    /\ \A j \in 1..Len(members) :
         j <= Len(segments) =>
           /\ segments[j].id = members[j].m.id
           /\ segments[j].cost = effective_cost(members[j].m, carbonPrice)
           /\ segments[j].abatement = ToNumber(members[j].m.abatement_tco2)
           /\ segments[j].x1_plot = AxisValue(TonsUpTo(members, j - 1))
           /\ segments[j].x2_plot = AxisValue(TonsUpTo(members, j))

-----------------------------------------------------------------------------
(* Claims about the catalog resolver *)

LowerKeyOf(row, cat) == ToLowerCase(row[KeyName(cat)])

LowerKeys(rows, cat) == [i \in 1..Len(rows) |-> LowerKeyOf(rows[i], cat)]

\* the distinct non-empty entries of a sequence of keys, by first appearance
RECURSIVE FirstAppearances(_, _, _)
FirstAppearances(keys, i, acc) ==
    IF i > Len(keys) THEN acc
    ELSE FirstAppearances(keys, i + 1,
            IF keys[i] = "" \/ (\E j \in 1..Len(acc) : acc[j] = keys[i]) THEN acc
            ELSE Append(acc, keys[i]))

HasKey(rows, cat, k) == \E j \in 1..Len(rows) : LowerKeyOf(rows[j], cat) = k

LastWithKey(rows, cat, k) == rows[MaxOf({j \in 1..Len(rows) : LowerKeyOf(rows[j], cat) = k})]

VerbatimModes ==
    /\ catalogMode = "sample" => \A c \in Categories : resolvedCatalogs[c] = dataSources[c]
    /\ catalogMode = "custom" => \A c \in Categories : resolvedCatalogs[c] = customCatalogs[c]

\* C8 as stated: in merged mode a custom row stands in for every sample row
\* with the same key (case-insensitive), every sample row whose key matches
\* no custom row is present unmodified, and the keys come out in sample order
\* followed by the custom-only keys; sample and custom mode return the
\* respective catalogs verbatim.
C8_AsStated ==
    /\ VerbatimModes
    /\ catalogMode = "merged" => \A c \in Categories :
          LET out == resolvedCatalogs[c]
              S == dataSources[c]
              Cu == customCatalogs[c]
              customOnly == SelectSeq(LowerKeys(Cu, c), LAMBDA k : ~HasKey(S, c, k))
          IN  /\ \A i \in 1..Len(S) :
                    IF HasKey(Cu, c, LowerKeyOf(S[i], c))
                    THEN \E p \in 1..Len(out) :
                            /\ LowerKeyOf(out[p], c) = LowerKeyOf(S[i], c)
                            /\ \E j \in 1..Len(Cu) : out[p] = Cu[j]
                    ELSE \E p \in 1..Len(out) : out[p] = S[i]
              /\ LowerKeys(out, c) = LowerKeys(S, c) \o FirstAppearances(customOnly, 1, <<>>)

\* C8 (amended): in merged mode the output has one row per distinct non-empty
\* key (case-insensitive) of the sample and custom rows, ordered by first
\* appearance with the sample rows first; the row of a key is the last custom
\* row carrying it or, when no custom row carries it, the last sample row
\* carrying it; rows with an empty key are left out. Sample and custom mode
\* return the respective catalogs verbatim.
C8_MergedCatalog ==
    /\ VerbatimModes
    /\ catalogMode = "merged" => \A c \in Categories :
          LET out == resolvedCatalogs[c]
              S == dataSources[c]
              Cu == customCatalogs[c]
          IN  /\ LowerKeys(out, c) = FirstAppearances(LowerKeys(S \o Cu, c), 1, <<>>)
              /\ \A p \in 1..Len(out) :
                    LET k == LowerKeyOf(out[p], c)
                    IN  out[p] = IF HasKey(Cu, c, k) THEN LastWithKey(Cu, c, k)
                                 ELSE LastWithKey(S, c, k)

C8_Witness ==
    /\ catalogMode = "merged"
    /\ dataSources = SampleWithRepeatedKey
    /\ Len(customCatalogs["fuels"]) = 2
    /\ customCatalogs["fuels"][1].name = "New Item"
    /\ customCatalogs["fuels"][2].name = "COAL"
    /\ Len(resolvedCatalogs["fuels"]) = 3
    /\ resolvedCatalogs["fuels"][1] = customCatalogs["fuels"][2]
    /\ resolvedCatalogs["fuels"][3] = customCatalogs["fuels"][1]

-----------------------------------------------------------------------------
(* Claims about interpolateSeries *)

FilledBelow(s, k) == {i \in 1..(k - 1) : IsFilledCell(s[i])}
FilledAbove(s, k) == {j \in (k + 1)..Len(s) : IsFilledCell(s[j])}
\* the value on the straight line through the nearest filled neighbours of k
LinearBetween(s, k) ==
    LET i == MaxOf(FilledBelow(s, k))
        j == MinOf(FilledAbove(s, k))
        vi == ToNumber(s[i])
        vj == ToNumber(s[j])
    IN  jsAdd(vi, jsDiv(jsMul(jsSub(vj, vi), Num(k - i)), Num(j - i)))

InterpolatedAsClaimed(in, out) ==
    /\ Len(out) = Len(in)
    /\ \A k \in 1..Len(in) :
          IF ~IsFilledCell(in[k]) /\ FilledBelow(in, k) # {} /\ FilledAbove(in, k) # {}
          THEN out[k] = LinearBetween(in, k)
          ELSE out[k] = in[k]

ExampleSeries == <<Num(5), Blank, Blank, Num(20), Blank>>
ExampleFilled == <<Num(5), Num(10), Num(15), Num(20), Blank>>

\* C10: interpolateSeries fills every blank or non-numeric cell lying between
\* two filled cells with the linear interpolation of its nearest filled
\* neighbours, leaves filled cells and leading/trailing blanks as they were,
\* leaves the array passed in untouched, and a second call on its own result
\* returns that result again; [5, blank, blank, 20, blank] gives
\* [5, 10, 15, 20, blank].
C10_Interpolation ==
    /\ [](interpCalls >= 1 =>
            /\ InterpolatedAsClaimed(series, interpolated)
            /\ (series = ExampleSeries => interpolated = ExampleFilled))
    /\ [][series' = series]_vars

C10_Witness ==
    /\ interpCalls = 2
    /\ series = ExampleSeries
    /\ interpolated = ExampleFilled

-----------------------------------------------------------------------------
(* Claims about the measure wizard *)

IsPositive(v) == (v.t = "num" /\ v.n > 0) \/ (v.t = "inf" /\ v.n > 0)

\* the representative index that the policy gives for a year list and the
\* direct_t values d of its years (JS index)
PolicyIndex(years, d) ==
    LET positive == {j \in 1..Len(d) : IsPositive(d[j])}
        at2035 == {j \in 1..Len(years) : years[j] = 2035}
    IN  IF positive # {} THEN (CHOOSE j \in positive : \A k \in positive : j <= k) - 1
        ELSE IF at2035 # {} THEN (CHOOSE j \in at2035 : TRUE) - 1
        ELSE Len(years) \div 2

DirectSeries(perYear) == [j \in 1..Len(perYear) |-> perYear[j].direct_t]

ZeroYears(n) == [j \in 1..n |-> [direct_t |-> Num(0)]]


\* C4: the representative index of the open wizard, and the one stored with
\* a saved template measure, is the smallest year index with direct_t > 0;
\* without such a year it is the index of 2035, which is index 2 for an
\* all-zero series over the six years; on a year list without 2035 the
\* fallback is floor(length / 2).
C4_RepresentativeYear ==
    /\ wizardOpen =>
         LET c == computed
             d == DirectSeries(c.perYear)
         IN  /\ c.repIdx = PolicyIndex(YEARS, d)
             /\ c.rep = c.perYear[c.repIdx + 1]
             /\ (\A j \in 1..Len(d) : d[j] = Num(0)) => c.repIdx = 2
    /\ \A k \in 1..Len(measures) :
         IsTemplate(measures[k]) =>
           measures[k].details.representative_index
             = PolicyIndex(YEARS, DirectSeries(measures[k].details.per_year))
    /\ RepIdxOf(<<2025, 2030, 2040, 2045, 2050>>, ZeroYears(5)) = 2
    /\ RepIdxOf(<<2030, 2040, 2050>>, ZeroYears(3)) = 1
    /\ RepIdxOf(<<2025, 2030, 2035, 2040, 2045, 2050>>, ZeroYears(6)) = 2

\* C4 witness: a saved template measure in which a year with a negative
\* direct_t comes before the first year with a positive one, and the
\* representative index is that later year
C4_Witness ==
    \E k \in 1..Len(measures) :
      /\ IsTemplate(measures[k])
      /\ measures[k].details.representative_index = 3
      /\ jsLt(measures[k].details.per_year[2].direct_t, Num(0))
      /\ measures[k].details.per_year[3].direct_t = Num(0)

\* the sum over the lines of a category of (adoption x delta) x effective EF
ItemCategoryTons(lines, cat, i) ==
    SumOfValues([k \in 1..Len(lines) |->
        jsMul(jsMul(AdoptionAt(i), ToNumber(OrZero(lines[k].delta[i + 1]))),
              ItemEffEf(lines[k], resolvedCatalogs[cat], i))])

ElecCategoryTons(lines, i) ==
    SumOfValues([k \in 1..Len(lines) |->
        jsMul(jsMul(AdoptionAt(i), ToNumber(OrZero(lines[k].deltaMWh[i + 1]))),
              ElecEffEf(lines[k], resolvedCatalogs["electricity"], i))])

\* the sum of all driver-line emission contributions of year i
DriverTons(i) ==
    SumOfValues(<<ItemCategoryTons(fuelLines, "fuels", i), ItemCategoryTons(rawLines, "raw", i),
                  ItemCategoryTons(transLines, "transport", i),
                  ItemCategoryTons(wasteLines, "waste", i), ElecCategoryTons(elecLines, i)>>)

OtherTons(i) == jsMul(AdoptionAt(i), ToNumber(OrZero(otherDirectT[i + 1])))

PiecesTons(p) ==
    SumOfValues(<<p.fuel_t, p.raw_t, p.trans_t, p.waste_t, p.elec_t, p.other_t>>)

\* C5: every template-derived measure has abatement_tco2 equal to the
\* direct_t of its representative per_year entry and cost_per_tco2 equal to
\* that entry's implied cost, with the carbon price when the save flag is
\* set and without it otherwise.
C5_HeadlineInvariant ==
    \A k \in 1..Len(measures) :
      LET m == measures[k]
          e == m.details.per_year[m.details.representative_index + 1]
      IN  IsTemplate(m) =>
            /\ m.abatement_tco2 = e.direct_t
            /\ m.cost_per_tco2 = IF Truthy(m.details.saved_cost_includes_carbon_price)
                                 THEN e.implied_cost_per_t_w
                                 ELSE e.implied_cost_per_t_wo

C7_DriverReduction ==
    wizardOpen =>
      \A i \in 0..(Len(YEARS) - 1) :
        PerYearEntry(i).direct_t = jsAdd(jsNeg(DriverTons(i)), OtherTons(i))

-----------------------------------------------------------------------------
(* Claims about persistence *)

\* the sample data arrives after the app has been opened again
LoadedAfterReload == ~dataLoaded /\ dataLoaded' /\ beforeReload # <<>>

\* C20: when the app has been closed and opened again on the same
\* localStorage, the active firm's baselines, measures, carbon price, custom
\* catalogs and catalog mode are, once loaded, those it had when the app was
\* closed, whatever edits were made before.
C20_PersistenceAcrossReload ==
    [][LoadedAfterReload =>
         FirmState(measures', baselines', carbonPrice', customCatalogs', catalogMode')
           = beforeReload[1]]_vars

\* the items of the active firm are those of its state after every step
StorageFollowsState ==
    activeFirmId # 0 =>
      localStorage.firm[activeFirmId]
        = <<StoredFirm(measures, baselines, carbonPrice, customCatalogs, catalogMode)>>

-----------------------------------------------------------------------------
(* Claims about the engine *)

\* P holds of every per-year entry the open wizard shows and of every
\* per-year entry stored with a saved template measure; i is the JS index
\* of the entry's year
ForEveryEntry(P(_, _)) ==
    /\ wizardOpen => \A i \in 0..(Len(YEARS) - 1) : P(PerYearEntry(i), i)
    /\ \A k \in 1..Len(measures) :
         IsTemplate(measures[k]) =>
           \A i \in 0..(Len(YEARS) - 1) : P(measures[k].details.per_year[i + 1], i)

\* P holds of some per-year entry of a saved template measure
ForSomeSavedEntry(P(_, _)) ==
    \E k \in 1..Len(measures) :
      /\ IsTemplate(measures[k])
      /\ \E i \in 0..(Len(YEARS) - 1) : P(measures[k].details.per_year[i + 1], i)

\* the number in cell i of a stack row
StackCell(key, i) == ToNumber(OrZero(stack[key][i + 1]))

\* driver cost + opex + other recurring - savings + financed annual cost
NetCostOfPieces(p) ==
    jsAdd(jsSub(jsAdd(jsAdd(p.driver_cr, p.opex_cr), p.other_cr), p.savings_cr),
          p.financedAnnual_cr)

\* capex_financed x annuityFactor(interest_rate_pct / 100, tenure)
FinancedAsClaimed(i) ==
    IF StackCell("capex_financed_cr", i) = Num(0) THEN Num(0)
    ELSE jsMul(StackCell("capex_financed_cr", i),
               annuityFactor(jsDiv(StackCell("interest_rate_pct", i), Num(100)),
                             StackCell("financing_tenure_years", i)))

FinancingAsClaimed(e, i) ==
    /\ e.pieces.financedAnnual_cr = FinancedAsClaimed(i)
    /\ e.net_cost_cr = NetCostOfPieces(e.pieces)

\* C13: in every year the financed annual cost added to the net cost is
\* capex_financed x annuityFactor(interest_rate_pct / 100, tenure), also at
\* an interest rate of 0 %, where the factor is 1 / tenure; only a tenure of
\* 0 disables the annuity.
C13_FinancingOverlay == ForEveryEntry(FinancingAsClaimed)

EntryIsFinite(e, i) ==
    /\ IsFiniteNum(e.direct_t)
    /\ IsFiniteNum(e.net_cost_cr)
    /\ IsFiniteNum(e.implied_cost_per_t_wo)
    /\ IsFiniteNum(e.implied_cost_per_t_w)
    /\ IsFiniteNum(e.cashflow_inr_wo_cp)
    /\ IsFiniteNum(e.cashflow_inr_w_cp)

\* C14: whatever the cells of the wizard hold, blank cells and non-numeric
\* text included, every numeric field of a saved template measure is a
\* finite number: the headline abatement and cost and, for every year,
\* direct_t, the net cost, the implied costs and the cash flows.
C14_NoNaNSaved ==
    \A k \in 1..Len(measures) :
      IsTemplate(measures[k]) =>
        /\ IsFiniteNum(measures[k].abatement_tco2)
        /\ IsFiniteNum(measures[k].cost_per_tco2)
        /\ \A i \in 0..(Len(YEARS) - 1) :
             EntryIsFinite(measures[k].details.per_year[i + 1], i)

ImpliedAsClaimed(e, i) ==
    LET netCost == NetCostOfPieces(e.pieces)
        wo == IF IsPositive(e.direct_t)
              THEN jsDiv(jsMul(netCost, Num(UnitScale)), e.direct_t) ELSE Num(0)
    IN  /\ e.pieces.opex_cr = StackCell("opex_cr", i)
        /\ e.pieces.other_cr = StackCell("other_cr", i)
        /\ e.pieces.savings_cr = StackCell("savings_cr", i)
        /\ e.net_cost_cr = netCost
        /\ e.implied_cost_per_t_wo = wo
        /\ e.implied_cost_per_t_w =
              IF IsPositive(e.direct_t) THEN jsSub(wo, ToNumber(OrZero(carbonPrice)))
              ELSE Num(0)

\* C15: in every year the net cost is driver cost + opex + other recurring
\* - savings + financed annual cost; the implied cost without the carbon
\* price is net cost x unit scale / direct_t when direct_t > 0 and 0
\* otherwise; the implied cost with the carbon price is that value minus the
\* current carbon price when direct_t > 0 and 0 otherwise.
C15_ImpliedCost == ForEveryEntry(ImpliedAsClaimed)

ImpliedCostCase(e, i) ==
    /\ IsPositive(e.direct_t)
    /\ IsPositive(e.pieces.financedAnnual_cr)
    /\ IsPositive(e.implied_cost_per_t_wo)
    /\ carbonPrice = Num(50)
    /\ e.implied_cost_per_t_w = jsSub(e.implied_cost_per_t_wo, Num(50))

ZeroImpliedCostCase(e, i) ==
    /\ ~IsPositive(e.direct_t)
    /\ IsPositive(e.net_cost_cr)
    /\ e.implied_cost_per_t_wo = Num(0)
    /\ e.implied_cost_per_t_w = Num(0)

\* C15 witness: a saved template measure with a year of positive direct_t,
\* a financed annual cost and a carbon price of 50, and a year without
\* positive direct_t whose implied costs are 0 although its net cost is not
C15_Witness ==
    /\ ForSomeSavedEntry(ImpliedCostCase)
    /\ ForSomeSavedEntry(ZeroImpliedCostCase)

\* max(0, year - baseYear) for the year at JS index i
ClaimedYearsSinceBase(i) == MaxOf({0, YEARS[i + 1] - BASE_YEAR})

\* (1 + pct / 100) ^ yearsSinceBase
ClaimedDrift(pct, i) ==
    jsPow(jsAdd(Num(1), jsDiv(ToNumber(OrZero(pct)), Num(100))), ClaimedYearsSinceBase(i))

\* the catalog row of an electricity line's state: the row of that state,
\* else the first row
ClaimedElecRow(ln) ==
    LET rows == resolvedCatalogs["electricity"]
        hits == {j \in 1..Len(rows) : rows[j].state = ln.state}
    IN  IF hits # {} THEN rows[MinOf(hits)] ELSE rows[1]

\* the effective EF of an electricity line in year i
ClaimedElecEf(ln, i) ==
    IF ln.efOvPerYear[i + 1].t \notin {"blank", "null"}
    THEN ToNumber(ln.efOvPerYear[i + 1])
    ELSE jsMul(ToNumber(ClaimedElecRow(ln).ef_tco2_per_mwh), ClaimedDrift(ln.efEscPctYr, i))

ElecAsClaimed(e, i) ==
    e.pieces.elec_t =
        SumOfValues([k \in 1..Len(elecLines) |->
            jsMul(jsMul(AdoptionAt(i), ToNumber(OrZero(elecLines[k].deltaMWh[i + 1]))),
                  ClaimedElecEf(elecLines[k], i))])

\* C16: for every electricity line and year, a per-year EF override that is
\* present (not blank, an entered 0 included) is the effective EF of that
\* year and the EF drift is ignored; otherwise the effective EF is the
\* catalog EF of the line's state x (1 + efDriftPct / 100) ^ yearsSinceBase.
C16_ElectricityEf == ForEveryEntry(ElecAsClaimed)

\* C16 witness: a saved template measure whose electricity line has an EF
\* drift, no override in 2025, an entered 0 in 2030, an entered 1 in 2035
\* and no override in 2040: the 2030 electricity tons are 0, the 2035 ones
\* are adoption x MWh x 1 and the 2040 ones carry the drift
C16_Witness ==
    /\ \E k \in 1..Len(measures) :
         /\ IsTemplate(measures[k])
         /\ jsLt(measures[k].details.per_year[1].pieces.elec_t, Num(0))
         /\ measures[k].details.per_year[2].pieces.elec_t = Num(0)
         /\ measures[k].details.per_year[3].pieces.elec_t
              = jsMul(AdoptionAt(2), ToNumber(elecLines[1].deltaMWh[3]))
         /\ jsLt(measures[k].details.per_year[4].pieces.elec_t, Num(-1000))
    /\ Len(elecLines) = 1
    /\ elecLines[1].efEscPctYr = Num(100)
    /\ elecLines[1].efOvPerYear[2] = Num(0)
    /\ elecLines[1].efOvPerYear[3] = NumStr(1)
    /\ elecLines[1].deltaMWh[2] = Num(-4)
    /\ AdoptionAt(1) = Num(1)

\* the catalog price and EF of a line's key, 0 when the catalog has no such key
ClaimedCatalogValue(cat, name, field) ==
    LET rows == resolvedCatalogs[cat]
        hits == {j \in 1..Len(rows) : rows[j].name = name}
    IN  IF hits = {} THEN Num(0) ELSE ToNumber(rows[MinOf(hits)][field])

ClaimedItemPrice(ln, cat, i) ==
    jsMul(IF ln.priceOv.t # "null" THEN ToNumber(ln.priceOv)
          ELSE ClaimedCatalogValue(cat, ln.name, "price_per_unit_inr"),
          ClaimedDrift(ln.priceEscPctYr, i))

ClaimedItemEf(ln, cat, i) ==
    jsMul(IF ln.efOv.t # "null" THEN ToNumber(ln.efOv)
          ELSE ClaimedCatalogValue(cat, ln.name, "ef_tco2_per_unit"),
          ClaimedDrift(ln.efEscPctYr, i))

\* the quantity of a line in year i
ClaimedQuantity(ln, i) == jsMul(AdoptionAt(i), ToNumber(OrZero(ln.delta[i + 1])))

ClaimedItemTons(lines, cat, i) ==
    SumOfValues([k \in 1..Len(lines) |->
        jsMul(ClaimedQuantity(lines[k], i), ClaimedItemEf(lines[k], cat, i))])

ClaimedItemCost(lines, cat, i) ==
    SumOfValues([k \in 1..Len(lines) |->
        jsDiv(jsMul(ClaimedQuantity(lines[k], i), ClaimedItemPrice(lines[k], cat, i)),
              Num(UnitScale))])

\* what the electricity lines add to the driver cost of year i
ElecCost(i) ==
    SumOfValues([k \in 1..Len(elecLines) |->
        jsDiv(jsMul(jsMul(AdoptionAt(i), ToNumber(OrZero(elecLines[k].deltaMWh[i + 1]))),
                    ElecEffPrice(elecLines[k], resolvedCatalogs["electricity"], i)),
              Num(UnitScale))])

ItemLinesAsClaimed(e, i) ==
    /\ e.pieces.fuel_t = ClaimedItemTons(fuelLines, "fuels", i)
    /\ e.pieces.raw_t = ClaimedItemTons(rawLines, "raw", i)
    /\ e.pieces.trans_t = ClaimedItemTons(transLines, "transport", i)
    /\ e.pieces.waste_t = ClaimedItemTons(wasteLines, "waste", i)
    /\ e.pieces.driver_cr =
          SumOfValues(<<ClaimedItemCost(fuelLines, "fuels", i),
                        ClaimedItemCost(rawLines, "raw", i),
                        ClaimedItemCost(transLines, "transport", i),
                        ClaimedItemCost(wasteLines, "waste", i), ElecCost(i)>>)

\* C17: for every fuel, raw material, transport and waste line and year, the
\* effective price is (the price override when set, 0 included, else the
\* catalog price of the line's key) x (1 + priceDriftPct / 100) ^
\* yearsSinceBase and the effective EF likewise from the EF override, the
\* catalog EF and efDriftPct, with yearsSinceBase = max(0, year - baseYear),
\* so that drift has no effect in the base year; the line adds quantity x EF
\* to the emissions and quantity x price / unit scale to the driver cost.
C17_ItemLine ==
    /\ ClaimedYearsSinceBase(0) = 0
    /\ ForEveryEntry(ItemLinesAsClaimed)

\* C17 witness: a saved template measure whose fuel line has a price
\* override of 0 and an EF drift of -100 %, at full adoption: the line adds
\* its catalog EF x quantity in the base year and nothing in 2030, and no
\* cost; the raw material line, with a price drift of -100 %, costs its
\* catalog price in the base year only, next to the waste and electricity lines
C17_Witness ==
    /\ \E k \in 1..Len(measures) :
         /\ IsTemplate(measures[k])
         /\ measures[k].details.per_year[1].pieces.fuel_t = Num(-4)
         /\ measures[k].details.per_year[2].pieces.fuel_t = Num(0)
         /\ measures[k].details.per_year[1].pieces.driver_cr
              = jsDiv(Num(4000 + 3 * 300 - 4 * 4800), Num(UnitScale))
         /\ measures[k].details.per_year[2].pieces.driver_cr
              = jsDiv(Num(3 * 300 - 4 * 4800), Num(UnitScale))
    /\ fuelLines = OverrideLines.fuel
    /\ rawLines = OverrideLines.raw
    /\ adoption = FullAdoption

\* direct_t and the driver cost of year i at an adoption of 1
DirectAtFullAdoption(i) ==
    SumOfValues(
      [k \in 1..Len(fuelLines) |->
          jsMul(ToNumber(OrZero(fuelLines[k].delta[i + 1])),
                ItemEffEf(fuelLines[k], resolvedCatalogs["fuels"], i))]
      \o [k \in 1..Len(rawLines) |->
          jsMul(ToNumber(OrZero(rawLines[k].delta[i + 1])),
                ItemEffEf(rawLines[k], resolvedCatalogs["raw"], i))]
      \o [k \in 1..Len(transLines) |->
          jsMul(ToNumber(OrZero(transLines[k].delta[i + 1])),
                ItemEffEf(transLines[k], resolvedCatalogs["transport"], i))]
      \o [k \in 1..Len(wasteLines) |->
          jsMul(ToNumber(OrZero(wasteLines[k].delta[i + 1])),
                ItemEffEf(wasteLines[k], resolvedCatalogs["waste"], i))]
      \o [k \in 1..Len(elecLines) |->
          jsMul(ToNumber(OrZero(elecLines[k].deltaMWh[i + 1])),
                ElecEffEf(elecLines[k], resolvedCatalogs["electricity"], i))]
      \o <<ToNumber(OrZero(otherDirectT[i + 1]))>>)

DriverCostAtFullAdoption(i) ==
    jsDiv(
      SumOfValues(
        [k \in 1..Len(fuelLines) |->
            jsMul(ToNumber(OrZero(fuelLines[k].delta[i + 1])),
                  ItemEffPrice(fuelLines[k], resolvedCatalogs["fuels"], i))]
        \o [k \in 1..Len(rawLines) |->
            jsMul(ToNumber(OrZero(rawLines[k].delta[i + 1])),
                  ItemEffPrice(rawLines[k], resolvedCatalogs["raw"], i))]
        \o [k \in 1..Len(transLines) |->
            jsMul(ToNumber(OrZero(transLines[k].delta[i + 1])),
                  ItemEffPrice(transLines[k], resolvedCatalogs["transport"], i))]
        \o [k \in 1..Len(wasteLines) |->
            jsMul(ToNumber(OrZero(wasteLines[k].delta[i + 1])),
                  ItemEffPrice(wasteLines[k], resolvedCatalogs["waste"], i))]
        \o [k \in 1..Len(elecLines) |->
            jsMul(ToNumber(OrZero(elecLines[k].deltaMWh[i + 1])),
                  ElecEffPrice(elecLines[k], resolvedCatalogs["electricity"], i))]),
      Num(UnitScale))

\* the adoption fraction of year i, clamped to [0, 1]
ClampedAdoption(i) ==
    LET v == ToNumber(OrZero(adoption[i + 1]))
    IN  IF jsLt(v, Num(0)) THEN Num(0) ELSE IF jsGt(v, Num(1)) THEN Num(1) ELSE v

AdoptionAsClaimed(e, i) ==
    /\ e.direct_t = jsMul(ClampedAdoption(i), DirectAtFullAdoption(i))
    /\ e.pieces.driver_cr = jsMul(ClampedAdoption(i), DriverCostAtFullAdoption(i))
    /\ ClampedAdoption(i) = Num(0) =>
          /\ e.direct_t = Num(0)
          /\ e.pieces.driver_cr = Num(0)

\* C18: in every year the adoption fraction is clamped to [0, 1] and
\* multiplies every driver line's delta and the other direct reduction:
\* direct_t and the driver cost at adoption a are a times their values at
\* adoption 1, fractions below 0 count as 0 and above 1 as 1, and an adoption
\* of 0 gives direct_t = 0 and driver cost = 0 whatever the lines contain.
C18_AdoptionScaling == ForEveryEntry(AdoptionAsClaimed)

\* the same on the years in which every line value is a finite number
ScalesWhereFinite(e, i) == IsFiniteNum(DirectAtFullAdoption(i)) => AdoptionAsClaimed(e, i)

AdoptionScalingOfFiniteValues == ForEveryEntry(ScalesWhereFinite)

-----------------------------------------------------------------------------
(* Claims about irr and annuityFactor *)

\* the finance helper fn has been called and has returned
Returned(fn) == finArgs.fn = fn /\ finRet # NotReturned

\* no two cash flows of the series have opposite signs
NoSignChange(amounts) ==
    ~\E j, k \in 1..Len(amounts) :
        jsGt(ToNumber(amounts[j]), Num(0)) /\ jsLt(ToNumber(amounts[k]), Num(0))

SameSign(a, b) ==
    \/ jsGt(a, Num(0)) /\ jsGt(b, Num(0))
    \/ jsLt(a, Num(0)) /\ jsLt(b, Num(0))

\* irr returns null when the NPV at -0.9 or at 3.0 is NaN or the two have
\* the same sign
BracketFailureGivesNull ==
    Returned("irr") =>
        LET fLo == npv(GuessLow, finArgs.amounts, finArgs.years, BASE_YEAR)
            fHi == npv(GuessHigh, finArgs.amounts, finArgs.years, BASE_YEAR)
        IN  (fLo.t = "nan" \/ fHi.t = "nan" \/ SameSign(fLo, fHi)) => finRet = Null

\* C11: irr returns null, never a rate, whenever the NPV at the lower bound
\* -0.9 or at the upper bound 3.0 is NaN or the two values have the same
\* sign; in particular every cash flow series without a sign change yields
\* null.
C11_IrrBracketFailure ==
    /\ BracketFailureGivesNull
    /\ Returned("irr") /\ NoSignChange(finArgs.amounts) => finRet = Null

\* what the annuity factor of rate r and tenure n is said to be
AnnuityAsClaimed(r, n) ==
    LET R == ToNumber(r)
        N == ToNumber(n)
    IN  IF R.t # "num" \/ N.t # "num" THEN Num(0)
        ELSE IF N.n <= 0 THEN Num(0)
        ELSE IF CmpNum(jsAbs(R), Rat(1, 1000000000)) < 0 THEN Rat(N.d, N.n)
        ELSE LET g == jsPow(jsAdd(Num(1), R), N.n)
             IN  jsDiv(jsMul(R, g), jsSub(g, Num(1)))

\* C12: annuityFactor(r, n) is 0 when n <= 0 or when r or n is not finite,
\* 1/n when |r| < 1e-9 (annuityFactor(0, 10) = 0.1), and
\* r (1 + r)^n / ((1 + r)^n - 1) otherwise.
C12_AnnuityFactor ==
    /\ annuityFactor(Num(0), Num(10)) = Rat(1, 10)
    /\ Returned("annuityFactor") => finRet = AnnuityAsClaimed(finArgs.r, finArgs.n)

\* annuityFactor(0, 10) has returned 0.1
C12_Witness ==
    /\ Returned("annuityFactor")
    /\ finArgs.r = Num(0)
    /\ finArgs.n = Num(10)
    /\ finRet = Rat(1, 10)

-----------------------------------------------------------------------------
(* Claims about the engine memo and its finance summary *)

\* what the engine reads besides the discount rate: the draft, the carbon
\* price and the catalogs
EngineInputs ==
    <<adoption, otherDirectT, fuelLines, rawLines, transLines, wasteLines, elecLines, stack,
      carbonPrice, dataSources, customCatalogs, catalogMode>>

Computed == finArgs.fn = "computed" /\ finRet # NotReturned

AllZero(flows) == \A j \in 1..Len(flows) : flows[j] = Num(0)

\* C29: when the cash flows of the draft are zero in every year, both IRR
\* values of the finance summary are null.
C29_EmptyProjectIrr ==
    (/\ Computed
     /\ AllZero(FieldOf(finRet.perYear, "cashflow_inr_wo_cp"))
     /\ AllZero(FieldOf(finRet.perYear, "cashflow_inr_w_cp")))
    => (finRet.finance.irrWO = Null /\ finRet.finance.irrW = Null)

\* the finance summary of the wizard's defaults shows an IRR of 105 %
C29_Witness ==
    /\ Computed
    /\ adoption = DefaultAdoption /\ stack = DefaultStack /\ otherDirectT = makeZeros
    /\ finRet.finance.irrWO = Rat(21, 20)
    /\ finRet.finance.irrW = Rat(21, 20)

-----------------------------------------------------------------------------
(* Claims about the bisection loop of irr *)

StrictSign(a) == IF jsGt(a, Num(0)) THEN 1 ELSE IF jsLt(a, Num(0)) THEN -1 ELSE 0

SameStrictSign(a, b) == StrictSign(a) # 0 /\ StrictSign(a) = StrictSign(b)

InLoop == finArgs.fn = "irrLoop" /\ finRet.t = "loop"

ReturnedRate == finArgs.fn = "irrLoop" /\ finRet.t = "return" /\ finRet.value # Null

NpvAt(r) == npv(r, finArgs.amounts, finArgs.years, BASE_YEAR)

\* the interval is the initial one halved once per iteration made, its ends
\* carry their NPV, and a returned rate is the midpoint of the interval, lies
\* between the initial bounds, and has |NPV| < tol unless the loop ran out
BisectionHalves ==
    /\ InLoop =>
          /\ jsSub(finRet.hi, finRet.lo)
               = jsDiv(jsSub(GuessHigh, GuessLow), Num(TwoTo(finRet.it)))
          /\ finRet.fLo = NpvAt(finRet.lo)
          /\ finRet.fHi = NpvAt(finRet.hi)
    /\ ReturnedRate =>
          /\ finRet.value = Midpoint(finRet.lo, finRet.hi)
          /\ jsLe(GuessLow, finRet.value) /\ jsLe(finRet.value, GuessHigh)
          /\ \/ jsLt(jsAbs(NpvAt(finRet.value)), Tol)
             \/ finRet.it = finArgs.maxIter
    /\ (finArgs.fn = "irrLoop" /\ finRet.t = "return") =>
          finRet.value = irr(finArgs.amounts, finArgs.years, BASE_YEAR, GuessLow, GuessHigh,
                             Tol, finArgs.maxIter)

\* C24: once irr is past its bound check, at the start of every iteration
\* NPV(lo) and NPV(hi) do not have the same strict sign, the interval has
\* halved with every iteration, and a returned rate lies in [-0.9, 3.0] and is
\* a midpoint with |NPV| < 1e-6 or the midpoint after the last iteration.
C24_BisectionBracket ==
    /\ InLoop => ~SameStrictSign(NpvAt(finRet.lo), NpvAt(finRet.hi))
    /\ BisectionHalves

\* NPV(-0.9) is exactly 0 and the first iteration has moved lo to the
\* midpoint: both ends now have a negative NPV
C24_Witness ==
    /\ InLoop
    /\ finArgs.amounts = <<Num(-10), Num(1)>>
    /\ finRet.it = 1
    /\ finRet.lo = Rat(21, 20)
    /\ jsLt(finRet.fLo, Num(0)) /\ jsLt(finRet.fHi, Num(0))

-----------------------------------------------------------------------------
(* Claims about quadraticFit *)

Fitted == finArgs.fn = "quadraticFit" /\ finRet # NotReturned

Distinct(vals) == Cardinality({vals[i] : i \in 1..Len(vals)})

\* the determinant of the normal equations of the call
NormalDet ==
    det(FitM(FitSums([i \in 1..Len(finArgs.xs) |-> ToDy(finArgs.xs[i])],
                     [i \in 1..Len(finArgs.xs) |-> ToDy(finArgs.ys[i])], Len(finArgs.xs))))

ReturnsCoefficients ==
    /\ finRet.a = finArgs.coef[1] /\ finRet.b = finArgs.coef[2] /\ finRet.c = finArgs.coef[3]
    /\ Distinct(finArgs.ys) > 1 => finRet.r2 = Num(1)

\* C22 as stated: three or more points with three distinct x values on a
\* quadratic give back its coefficients, with r2 = 1 unless the y values are
\* all equal; fewer than 3 points or a determinant below 1e-12 give zeros and
\* r2 = null.
C22_AsStated ==
    Fitted =>
      /\ (Len(finArgs.xs) >= 3 /\ Distinct(finArgs.xs) >= 3) => ReturnsCoefficients
      /\ (Len(finArgs.xs) < 3 \/ DyBelowTolerance(NormalDet)) => finRet = ZeroFit

\* C22: the same with the exactness limited to calls whose determinant is
\* at least 1e-12 in absolute value.
C22_QuadraticFit ==
    Fitted =>
      /\ (Len(finArgs.xs) >= 3 /\ Distinct(finArgs.xs) >= 3 /\ ~DyBelowTolerance(NormalDet))
            => ReturnsCoefficients
      /\ (Len(finArgs.xs) < 3 \/ DyBelowTolerance(NormalDet)) => finRet = ZeroFit

\* the fit of three points on 2 + 3x - x^2
C22_Witness ==
    /\ Fitted
    /\ finArgs.xs = <<Num(0), Num(1), Num(3)>>
    /\ finArgs.ys = <<Num(2), Num(4), Num(2)>>
    /\ finRet = [a |-> Num(2), b |-> Num(3), c |-> Num(-1), r2 |-> Num(1)]

-----------------------------------------------------------------------------
(* Claims about the save flag and the ranking cost *)

\* current carbon prices the ranking is looked at
RankingCarbonPrices == {Num(0), Num(50), Num(120)}

RepEntry(m) == m.details.per_year[m.details.representative_index + 1]

\* the ranking cost of m is the without-carbon-price implied cost of its
\* representative year minus the current carbon price, at every such price
RanksAtImpliedCost(m) ==
    \A q \in RankingCarbonPrices :
        effective_cost(m, q) = jsSub(RepEntry(m).implied_cost_per_t_wo, q)

JustSaved == Len(measures') = Len(measures) + 1

\* C25: a template measure whose representative year has direct_t > 0 is
\* ranked, at every current carbon price q, at its without-carbon-price
\* implied cost minus q, whether it was saved with the carbon price included
\* or not.
C25_SaveFlagIndependence ==
    [][(JustSaved /\ jsGt(RepEntry(measures'[Len(measures')]).direct_t, Num(0)))
         => RanksAtImpliedCost(measures'[Len(measures')])]_vars

\* the same for the saves whose implied cost is a finite number
SaveFlagIndependenceOfFiniteCosts ==
    [][(/\ JustSaved
        /\ jsGt(RepEntry(measures'[Len(measures')]).direct_t, Num(0))
        /\ IsFiniteNum(RepEntry(measures'[Len(measures')]).implied_cost_per_t_wo))
         => RanksAtImpliedCost(measures'[Len(measures')])]_vars

\* a measure saved with the carbon price included, at a carbon price of 50,
\* whose implied cost is NaN: it is ranked at 50 when the carbon price is 0
C25_Witness ==
    \E k \in 1..Len(measures) :
        /\ IsTemplate(measures[k])
        /\ jsGt(RepEntry(measures[k]).direct_t, Num(0))
        /\ measures[k].details.saved_cost_includes_carbon_price = JsTrue
        /\ measures[k].cost_per_tco2 = NaN
        /\ effective_cost(measures[k], Num(0)) = Num(50)

-----------------------------------------------------------------------------
(* Claims about editing a saved measure *)

\* the step saves the wizard that was opened on a saved measure, with the
\* save flag and the carbon price as they were when the measure was saved
SavesUnchangedEdit ==
    /\ wizardOpen /\ ~wizardOpen'
    /\ editingMeasure # Null
    /\ applyCarbonPriceInSave = Truthy(editingMeasure.details.saved_cost_includes_carbon_price)
    /\ ToNumber(OrZero(carbonPrice)) = editingMeasure.details.carbon_price_at_save

\* the list keeps its length and its ids, and the edited measure keeps the
\* fields of the sequence fields
KeepsFields(fields) ==
    /\ Len(measures') = Len(measures)
    /\ \A k \in 1..Len(measures) :
          /\ measures'[k].id = measures[k].id
          /\ measures[k].id = editingMeasure.id =>
                /\ \A j \in 1..Len(fields) : measures'[k][fields[j]] = measures[k][fields[j]]
                /\ measures'[k].details.per_year = measures[k].details.per_year
                /\ measures'[k].details.representative_index
                     = measures[k].details.representative_index

\* C30: saving the wizard opened on a saved template measure, with no field
\* changed, leaves the measure at its position with the same id, selected
\* flag, abatement_tco2, cost_per_tco2, per_year and representative_index.
C30_EditRoundTrip ==
    [][SavesUnchangedEdit
         => KeepsFields(<<"selected", "abatement_tco2", "cost_per_tco2">>)]_vars

\* the same without the selected flag, for a measure whose id a firm load
\* has assigned
EditRoundTripButSelected ==
    [][SavesUnchangedEdit /\ EditsById
         => KeepsFields(<<"abatement_tco2", "cost_per_tco2">>)]_vars

\* a measure saved in this session has no id, and its unchanged re-save is
\* appended as a further measure
EditOfNewMeasureAppends ==
    [][SavesUnchangedEdit /\ ~EditsById
         => Len(measures') = Len(measures) + 1]_vars

\* a deselected template measure is open in the wizard
C30_Witness ==
    /\ wizardOpen
    /\ editingMeasure # Null
    /\ \E k \in 1..Len(measures) :
          measures[k].id = editingMeasure.id /\ ~measures[k].selected

-----------------------------------------------------------------------------
(* Claims about the text-fix script *)

\* the step is a run without --dry-run on a file that an earlier run without
\* --dry-run has processed
RunsOnProcessedFile ==
    /\ Len(runLog') = Len(runLog) + 1
    /\ ~runLog'[Len(runLog')].dryRun
    /\ \E k \in 1..Len(runLog) : ~runLog[k].dryRun

\* the step has written neither a backup nor the target file
WritesNothing ==
    /\ fileText' = fileText
    /\ backups' = backups
    /\ ~runLog'[Len(runLog')].wrote

\* needle occurs in haystack
Occurs(haystack, needle) ==
    \E i \in 1..(Len(haystack) - Len(needle) + 1) :
        SubSeq(haystack, i, i + Len(needle) - 1) = needle

\* no replace string of the list contains a find string of the list
NoOutputHoldsAFind ==
    \A i \in 1..Len(replacements), j \in 1..Len(replacements) :
        ~Occurs(replacements[i].replace, replacements[j].find)

\* C23: a run of the script on a file it has already processed changes
\* nothing: it writes neither a backup nor the target file, and no replace
\* string of the list contains a find string of the list.
C23_TextFixIdempotence ==
    [][NoOutputHoldsAFind /\ (RunsOnProcessedFile => WritesNothing)]_vars

\* a run that finds nothing to replace writes nothing
RunWithoutHitsWritesNothing ==
    [][(/\ Len(runLog') = Len(runLog) + 1
        /\ ApplyReplacements(fileText).report = <<>>) => WritesNothing]_vars

\* a second run without --dry-run has rewritten the file
C23_Witness ==
    \E j, k \in 1..Len(runLog) :
        /\ j < k
        /\ ~runLog[j].dryRun /\ runLog[j].wrote
        /\ ~runLog[k].dryRun /\ runLog[k].wrote

-----------------------------------------------------------------------------
(* Claims about the firms *)

\* C26: once the default firm has been initialised, activeFirmId is the id
\* of exactly one firm of the firms list, after every create, delete, switch
\* and rename; so the list is never empty.
C26_FirmRegistry ==
    dataLoaded =>
        Cardinality({k \in 1..Len(firms) : firms[k].id = activeFirmId}) = 1

\* the default firm has been deleted and a firm created later is the only one
C26_Witness ==
    /\ dataLoaded
    /\ Len(firms) = 1
    /\ firms[1].id # 1
    /\ firms[1].name = "Acme"

\* the step makes a firm active that was active before and has since been
\* left, by the firm switcher or the Use button
SwitchesBack ==
    /\ activeFirmId' # activeFirmId
    /\ firms' = firms
    /\ activeFirmId' \in FirmIds
    /\ stateWhenLeft[activeFirmId'] # <<>>

\* the state of the active firm after the step is the one recorded when the
\* firm was left
RestoresStateWhenLeft ==
    FirmState(measures', baselines', carbonPrice', customCatalogs', catalogMode')
      = stateWhenLeft[activeFirmId'][1]

\* C27: switching back to a firm restores the baselines, measures, carbon
\* price, custom catalogs and catalog mode it had when it was left, also when
\* its measures list was empty.
C27_FirmSwitchRoundTrip == [][SwitchesBack => RestoresStateWhenLeft]_vars

\* the state recorded when the firm was left, with the ids that
\* normalizeMeasures gives to measures saved without one
RestoresUpToNewIds ==
    FirmState(measures', baselines', carbonPrice', customCatalogs', catalogMode')
      = [stateWhenLeft[activeFirmId'][1] EXCEPT !.measures = normalizeMeasures(@)]

\* the same for a firm left with at least one measure and one baseline, up to
\* the ids of measures that had none
RoundTripOfFilledFirm ==
    [][(/\ SwitchesBack
        /\ stateWhenLeft[activeFirmId'][1].measures # <<>>
        /\ \E x \in BaselineKeys : stateWhenLeft[activeFirmId'][1].baselines[x] # Null)
       => RestoresUpToNewIds]_vars

\* a firm that was left with an empty measures list is active again
C27_Witness ==
    /\ activeFirmId \in FirmIds
    /\ stateWhenLeft[activeFirmId] # <<>>
    /\ stateWhenLeft[activeFirmId][1].measures = <<>>
    /\ \E id \in FirmIds \ {activeFirmId} : stateWhenLeft[id] # <<>>

-----------------------------------------------------------------------------
(* Claims about the ids of the measures *)

\* the measures of the list that the comparison x.id === list[k].id of an
\* update, an inline edit or a delete selects
SelectedById(list, k) == {j \in 1..Len(list) : SameId(list[j].id, list[k].id)}

\* C28: the ids of the active firm's measures are pairwise distinct, so that
\* an update or delete by the id of a measure selects exactly that measure.
C28_MeasureIdsDistinct ==
    dataLoaded => \A k \in 1..Len(measures) : SelectedById(measures, k) = {k}

\* every measure of the list has an id of its own
IdsDistinct(list) == \A k \in 1..Len(list) : SelectedById(list, k) = {k} /\ list[k].id # 0

\* a CSV import into a list whose measures have ids of their own gives the
\* new row an id of its own
ImportKeepsOwnIds ==
    IdsDistinct(measures) => IdsDistinct(importCSV(measures, <<JsonMeasure(0)>>))

\* in a list whose measures have ids of their own, a delete removes one
\* measure and an inline edit changes one
EditByOwnIdTouchesOne ==
    IdsDistinct(measures)
      => \A k \in 1..Len(measures) :
            /\ Len(WithoutRow(measures, k)) = Len(measures) - 1
            /\ \A j \in 1..Len(measures) :
                  j # k => InlineEdit(measures, k, "selected", ~measures[k].selected)[j]
                             = measures[j]

\* two measures saved from the wizard in this session are in the list
C28_Witness ==
    /\ dataLoaded
    /\ \E i, j \in 1..Len(measures) :
          /\ i < j
          /\ measures[i].id = 0 /\ measures[j].id = 0
          /\ measures[i].details = QuickDetails /\ measures[j].details = QuickDetails

=============================================================================
